---- MODULE Spec2Model ----
(***************************************************************************)
(* MLS salary report: the line classifier, the filters, the club totals,   *)
(* the ordering and the report of the command-line program (variant "cli") *)
(* and of the HTTP program (variant "web"), and the line handling of the   *)
(* earlier command-line programs kept in the repository: "cliPrev" and     *)
(* "cli2018" classify tokens as "cli" does, "cli2017" and "cli2018a" take  *)
(* the fields of a line by their place.  Modelled apart: the handlers of   *)
(* the HTTP program with their requests running side by side, the median   *)
(* of the goals-and-assists report ("cliGA") and the String methods of the *)
(* flag values.                                                            *)
(*                                                                         *)
(* A Go string is a sequence of one-character strings.  An amount is an    *)
(* integer number of cents, so 30000.00 is 3000000.  The -debug output of  *)
(* the command-line program is not modelled.                               *)
(***************************************************************************)
EXTENDS Integers, Sequences, FiniteSets, TLC

\* ------------------------------------------------------------------------
\* strings
\* ------------------------------------------------------------------------

Lowers == <<"a","b","c","d","e","f","g","h","i","j","k","l","m",
            "n","o","p","q","r","s","t","u","v","w","x","y","z">>

Uppers == <<"A","B","C","D","E","F","G","H","I","J","K","L","M",
            "N","O","P","Q","R","S","T","U","V","W","X","Y","Z">>

lowerOf == [c \in {Uppers[i] : i \in 1..26} |-> Lowers[CHOOSE i \in 1..26 : Uppers[i] = c]]

upperOf == [c \in {Lowers[i] : i \in 1..26} |-> Uppers[CHOOSE i \in 1..26 : Lowers[i] = c]]

lowerCh(c) == IF c \in DOMAIN lowerOf THEN lowerOf[c] ELSE c

upperCh(c) == IF c \in DOMAIN upperOf THEN upperOf[c] ELSE c

\* strings.ToLower / strings.ToUpper on ASCII text
ToLower(s) == [i \in 1..Len(s) |-> lowerCh(s[i])]

ToUpper(s) == [i \in 1..Len(s) |-> upperCh(s[i])]

\* strings.EqualFold on ASCII text
EqualFold(s, t) == Len(s) = Len(t) /\ \A i \in 1..Len(s) : lowerCh(s[i]) = lowerCh(t[i])

\* strings.Contains
Contains(s, sub) == \E i \in 0..(Len(s) - Len(sub)) : SubSeq(s, i + 1, i + Len(sub)) = sub

IsSpace(c) == c \in {" ", "\t"}

RECURSIVE TrimLeftSpace(_)
TrimLeftSpace(s) == IF s # <<>> /\ IsSpace(Head(s)) THEN TrimLeftSpace(Tail(s)) ELSE s

RECURSIVE TrimRightSpace(_)
TrimRightSpace(s) ==
    IF s # <<>> /\ IsSpace(s[Len(s)]) THEN TrimRightSpace(SubSeq(s, 1, Len(s) - 1)) ELSE s

\* strings.TrimSpace
TrimSpace(s) == TrimRightSpace(TrimLeftSpace(s))

\* strings.TrimLeft(s, cutset) for a one-character cutset
RECURSIVE TrimLeft(_, _)
TrimLeft(s, c) == IF s # <<>> /\ Head(s) = c THEN TrimLeft(Tail(s), c) ELSE s

\* strings.ReplaceAll(s, c, "") for a one-character c
RemoveAll(s, c) == LET keep(x) == x # c IN SelectSeq(s, keep)

\* strings.Index(s, c) for a one-character c, 0-based, -1 when absent
Index(s, c) ==
    IF \E i \in 1..Len(s) : s[i] = c
    THEN (CHOOSE i \in 1..Len(s) : s[i] = c /\ \A j \in 1..(i - 1) : s[j] # c) - 1
    ELSE -1

\* strings.Split(s, sep) for a one-character sep: every field, the empty ones too
RECURSIVE Split(_, _)
Split(s, sep) ==
    LET i == Index(s, sep)
    IN  IF i = -1 THEN <<s>>
        ELSE <<SubSeq(s, 1, i)>> \o Split(SubSeq(s, i + 2, Len(s)), sep)

\* strings.Join
RECURSIVE Join(_, _)
Join(ss, sep) ==
    IF ss = <<>> THEN <<>>
    ELSE IF Len(ss) = 1 THEN ss[1]
    ELSE ss[1] \o sep \o Join(Tail(ss), sep)

Digits == <<"0","1","2","3","4","5","6","7","8","9">>

IsDigit(c) == \E d \in 1..10 : Digits[d] = c

DigitVal(c) == (CHOOSE d \in 1..10 : Digits[d] = c) - 1

RECURSIVE DecVal(_)
DecVal(s) == IF s = <<>> THEN 0 ELSE 10 * DecVal(SubSeq(s, 1, Len(s) - 1)) + DigitVal(s[Len(s)])

\* strconv.ParseFloat(s, 64) on the decimal grammar [sign] digits [. digits] with
\* at least one digit; the value in cents (the data carries at most two
\* fraction digits).  Text outside this grammar is a syntax error here; the
\* inputs hold none of the other forms ParseFloat reads (an exponent, a hex
\* mantissa, inf, nan).
ParseFloat(s) ==
    LET neg  == s # <<>> /\ Head(s) = "-"
        body == IF s # <<>> /\ Head(s) \in {"+", "-"} THEN Tail(s) ELSE s
        dot  == Index(body, ".")
        ip   == IF dot = -1 THEN body ELSE SubSeq(body, 1, dot)
        fp   == IF dot = -1 THEN <<>> ELSE SubSeq(body, dot + 2, Len(body))
        ok   == /\ Len(ip) + Len(fp) > 0
                /\ \A i \in 1..Len(ip) : IsDigit(ip[i])
                /\ \A i \in 1..Len(fp) : IsDigit(fp[i])
        fp2  == SubSeq(fp \o <<"0","0">>, 1, 2)
        mag  == 100 * DecVal(ip) + DecVal(fp2)
    IN  IF ok THEN [ok |-> TRUE, val |-> IF neg THEN -mag ELSE mag]
        ELSE [ok |-> FALSE, val |-> 0]

\* ------------------------------------------------------------------------
\* club and position tables
\* ------------------------------------------------------------------------

allClubsCli ==
    (<<"P","o","o","l">> :> <<"M","L","S">>)
    @@ (<<"M","L","S"," ","P","o","o","l">> :> <<"M","L","S">>)
    @@ (<<"M","a","j","o","r"," ","L","e","a","g","u","e"," ","S","o","c","c","e","r">> :> <<"M","L","S">>)
    @@ (<<"R","e","t","i","r","e","d">> :> <<"M","L","S">>)
    @@ (<<"N","e","w"," ","E","n","g","l","a","n","d"," ","R","e","v","o","l","u","t","i","o","n">> :> <<"N","E">>)
    @@ (<<"O","r","l","a","n","d","o"," ","C","i","t","y"," ","S","C">> :> <<"O","R","L">>)
    @@ (<<"S","a","n"," ","J","o","s","e"," ","E","a","r","t","h","q","u","a","k","e","s">> :> <<"S","J">>)
    @@ (<<"V","a","n","c","o","u","v","e","r"," ","W","h","i","t","e","c","a","p","s">> :> <<"V","A","N">>)
    @@ (<<"C","o","l","u","m","b","u","s"," ","C","r","e","w">> :> <<"C","L","B">>)
    @@ (<<"D","C"," ","U","n","i","t","e","d">> :> <<"D","C">>)
    @@ (<<"M","i","n","n","e","s","o","t","a"," ","U","n","i","t","e","d">> :> <<"M","N","U","F","C">>)
    @@ (<<"S","e","a","t","t","l","e"," ","S","o","u","n","d","e","r","s"," ","F","C">> :> <<"S","E","A">>)
    @@ (<<"C","h","i","c","a","g","o"," ","F","i","r","e">> :> <<"C","H","I">>)
    @@ (<<"C","o","l","o","r","a","d","o"," ","R","a","p","i","d","s">> :> <<"C","O","L">>)
    @@ (<<"F","C"," ","D","a","l","l","a","s">> :> <<"D","A","L">>)
    @@ (<<"S","p","o","r","t","i","n","g"," ","K","a","n","s","a","s"," ","C","i","t","y">> :> <<"K","C">>)
    @@ (<<"L","A"," ","G","a","l","a","x","y">> :> <<"L","A">>)
    @@ (<<"L","A","F","C">> :> <<"L","A","F","C">>)
    @@ (<<"C","F"," ","M","o","n","t","r","e","a","l">> :> <<"M","T","L">>)
    @@ (<<"M","o","n","t","r","e","a","l">> :> <<"M","T","L">>)
    @@ (<<"M","o","n","t","r","e","a","l"," ","I","m","p","a","c","t">> :> <<"M","T","L">>)
    @@ (<<"N","e","w"," ","Y","o","r","k"," ","R","e","d"," ","B","u","l","l","s">> :> <<"N","Y","R","B">>)
    @@ (<<"T","o","r","o","n","t","o"," ","F","C">> :> <<"T","O","R">>)
    @@ (<<"A","t","l","a","n","t","a"," ","U","n","i","t","e","d">> :> <<"A","T","L">>)
    @@ (<<"H","o","u","s","t","o","n"," ","D","y","n","a","m","o">> :> <<"H","O","U">>)
    @@ (<<"N","e","w"," ","Y","o","r","k"," ","C","i","t","y"," ","F","C">> :> <<"N","Y","C","F","C">>)
    @@ (<<"P","h","i","l","a","d","e","l","p","h","i","a"," ","U","n","i","o","n">> :> <<"P","H","I">>)
    @@ (<<"P","o","r","t","l","a","n","d"," ","T","i","m","b","e","r","s">> :> <<"P","O","R">>)
    @@ (<<"R","e","a","l"," ","S","a","l","t"," ","L","a","k","e">> :> <<"R","S","L">>)
    @@ (<<"F","C"," ","C","i","n","c","i","n","n","a","t","i">> :> <<"C","I","N">>)
    @@ (<<"N","Y">> :> <<"N","Y","R","B">>)
    @@ (<<"C","h","i","v","a","s"," ","U","S","A">> :> <<"C","H","V">>)
    @@ (<<"N","a","s","h","v","i","l","l","e"," ","S","C">> :> <<"N","S","C">>)
    @@ (<<"I","n","t","e","r"," ","M","i","a","m","i">> :> <<"M","I","A">>)
    @@ (<<"A","u","s","t","i","n"," ","F","C">> :> <<"A","F","C">>)
    @@ (<<"C","h","a","r","l","o","t","t","e"," ","F","C">> :> <<"C","L","T">>)
    @@ (<<"S","t","."," ","L","o","u","i","s"," ","S","C">> :> <<"S","T","L">>)
    @@ (<<"S","t","."," ","L","o","u","i","s"," ","C","i","t","y"," ","S","C">> :> <<"S","T","L">>)
    @@ (<<"S","a","n"," ","D","i","e","g","o"," ","F","C">> :> <<"S","D","F","C">>)

allClubsWeb ==
    (<<"M","L","S"," ","P","o","o","l">> :> <<"M","L","S">>)
    @@ (<<"N","e","w"," ","E","n","g","l","a","n","d"," ","R","e","v","o","l","u","t","i","o","n">> :> <<"N","E">>)
    @@ (<<"O","r","l","a","n","d","o"," ","C","i","t","y"," ","S","C">> :> <<"O","R","L">>)
    @@ (<<"S","a","n"," ","J","o","s","e"," ","E","a","r","t","h","q","u","a","k","e","s">> :> <<"S","J">>)
    @@ (<<"V","a","n","c","o","u","v","e","r"," ","W","h","i","t","e","c","a","p","s">> :> <<"V","A","N">>)
    @@ (<<"C","o","l","u","m","b","u","s"," ","C","r","e","w">> :> <<"C","L","B">>)
    @@ (<<"D","C"," ","U","n","i","t","e","d">> :> <<"D","C">>)
    @@ (<<"M","i","n","n","e","s","o","t","a"," ","U","n","i","t","e","d">> :> <<"M","N","U","F","C">>)
    @@ (<<"S","e","a","t","t","l","e"," ","S","o","u","n","d","e","r","s"," ","F","C">> :> <<"S","E","A">>)
    @@ (<<"C","h","i","c","a","g","o"," ","F","i","r","e">> :> <<"C","H","I">>)
    @@ (<<"C","o","l","o","r","a","d","o"," ","R","a","p","i","d","s">> :> <<"C","O","L">>)
    @@ (<<"F","C"," ","D","a","l","l","a","s">> :> <<"D","A","L">>)
    @@ (<<"S","p","o","r","t","i","n","g"," ","K","a","n","s","a","s"," ","C","i","t","y">> :> <<"K","C">>)
    @@ (<<"L","A"," ","G","a","l","a","x","y">> :> <<"L","A">>)
    @@ (<<"L","A","F","C">> :> <<"L","A","F","C">>)
    @@ (<<"C","F"," ","M","o","n","t","r","e","a","l">> :> <<"M","T","L">>)
    @@ (<<"M","o","n","t","r","e","a","l">> :> <<"M","T","L">>)
    @@ (<<"N","e","w"," ","Y","o","r","k"," ","R","e","d"," ","B","u","l","l","s">> :> <<"N","Y","R","B">>)
    @@ (<<"T","o","r","o","n","t","o"," ","F","C">> :> <<"T","O","R">>)
    @@ (<<"A","t","l","a","n","t","a"," ","U","n","i","t","e","d">> :> <<"A","T","L">>)
    @@ (<<"H","o","u","s","t","o","n"," ","D","y","n","a","m","o">> :> <<"H","O","U">>)
    @@ (<<"N","e","w"," ","Y","o","r","k"," ","C","i","t","y"," ","F","C">> :> <<"N","Y","C","F","C">>)
    @@ (<<"P","h","i","l","a","d","e","l","p","h","i","a"," ","U","n","i","o","n">> :> <<"P","H","I">>)
    @@ (<<"P","o","r","t","l","a","n","d"," ","T","i","m","b","e","r","s">> :> <<"P","O","R">>)
    @@ (<<"R","e","a","l"," ","S","a","l","t"," ","L","a","k","e">> :> <<"R","S","L">>)
    @@ (<<"F","C"," ","C","i","n","c","i","n","n","a","t","i">> :> <<"C","I","N">>)
    @@ (<<"N","Y">> :> <<"N","Y","R","B">>)
    @@ (<<"C","h","i","v","a","s"," ","U","S","A">> :> <<"C","H","V">>)
    @@ (<<"N","a","s","h","v","i","l","l","e"," ","S","C">> :> <<"N","S","C">>)
    @@ (<<"I","n","t","e","r"," ","M","i","a","m","i">> :> <<"M","I","A">>)
    @@ (<<"A","u","s","t","i","n"," ","F","C">> :> <<"A","F","C">>)
    @@ (<<"C","h","a","r","l","o","t","t","e"," ","F","C">> :> <<"C","L","T">>)
    @@ (<<"M","a","j","o","r"," ","L","e","a","g","u","e"," ","S","o","c","c","e","r">> :> <<"M","L","S">>)
    @@ (<<"S","t","."," ","L","o","u","i","s"," ","S","C">> :> <<"S","T","L">>)
    @@ (<<"S","t","."," ","L","o","u","i","s"," ","C","i","t","y"," ","S","C">> :> <<"S","T","L">>)
    @@ (<<"S","a","n"," ","D","i","e","g","o"," ","F","C">> :> <<"S","D","F","C">>)

allPosCli ==
    << <<"F">>,
       <<"M","-","F">>,
       <<"F","-","M">>,
       <<"F","/","M">>,
       <<"G","K">>,
       <<"D">>,
       <<"D","-","M">>,
       <<"M","-","D">>,
       <<"M">>,
       <<"M","/","F">> >>

allPosWeb ==
    << <<"F">>,
       <<"M","-","F">>,
       <<"F","-","M">>,
       <<"F","/","M">>,
       <<"G","K">>,
       <<"D">>,
       <<"D","-","M">>,
       <<"M","-","D">>,
       <<"M">>,
       <<"M","/","F">>,
       <<"R","i","g","h","t"," ","W","i","n","g">>,
       <<"C","E","N","T","E","R","-","B","A","C","K">>,
       <<"D","E","F","E","N","S","I","V","E"," ","M","I","D","F","I","E","L","D">>,
       <<"R","I","G","H","T"," ","W","I","N","G">>,
       <<"C","E","N","T","R","A","L"," ","M","I","D","F","I","E","L","D">>,
       <<"C","E","N","T","E","R"," ","F","O","R","W","A","R","D">>,
       <<"R","I","G","H","T","-","B","A","C","K">>,
       <<"A","T","T","A","C","K","I","N","G"," ","M","I","D","F","I","E","L","D">>,
       <<"G","O","A","L","K","E","E","P","E","R">>,
       <<"L","E","F","T","-","B","A","C","K">>,
       <<"L","E","F","T"," ","W","I","N","G">>,
       <<"R","I","G","H","T"," ","M","I","D","F","I","E","L","D">>,
       <<"R","I","G","H","T"," ","W","I","N","G">>,
       <<"L","E","F","T"," ","M","I","D","F","I","E","L","D">>,
       <<"M","I","D","F","I","E","L","D","E","R">>,
       <<"F","O","R","W","A","R","D">>,
       <<"D","E","F","E","N","D","E","R">> >>

\* ------------------------------------------------------------------------
\* Clubs, Pos, Players
\* ------------------------------------------------------------------------

\* A Clubs value is a function from full club names to abbreviations.  Go
\* ranges over a map in an unspecified order, so a loop that returns at its
\* first hit is modelled by the set of all the results it can return.

Range(f) == {f[k] : k \in DOMAIN f}

SeqRange(q) == {q[i] : i \in 1..Len(q)}

\* cli: the keys getKey can return (empty: not found)
getKeyCli(c, val) == {key \in DOMAIN c : val = c[key]}

HasValCli(c, val) == val \in DOMAIN c \/ getKeyCli(c, val) # {}

AbvCli(c, fullName) ==
    IF fullName \in DOMAIN c THEN c[fullName]
    ELSE IF getKeyCli(c, fullName) # {} THEN fullName
    ELSE <<>>

\* web: the keys getKey can return (empty: not found)
getKeyWeb(c, val) == {key \in DOMAIN c : EqualFold(val, c[key])}

HasValWeb(c, val) == val \in DOMAIN c \/ getKeyWeb(c, val) # {}

\* web: the club of a token, were it taken as Abv returns it (an abbreviation
\* comes back as it was written)
clubOfTokenWebAsWritten(token) ==
    {IF token \in DOMAIN allClubsWeb THEN allClubsWeb[token] ELSE token}

\* web: the abbreviations the loop over allClubs can assign to player.Club
\* for a token (it stops at the first entry that matches)
clubOfTokenWeb(token) ==
    {allClubsWeb[full] : full \in {f \in DOMAIN allClubsWeb :
                                     EqualFold(token, f) \/ EqualFold(token, allClubsWeb[f])}}

\* Pos.HasVal
PosHasVal(p, s) == ToUpper(s) \in SeqRange(p)

\* Players.HasVal, were the letter case to count
PlayersHasValExact(p, val) == \E i \in 1..Len(p) : Contains(val, p[i])

\* Players.HasVal: p is the list of the names asked for
PlayersHasVal(p, val) == \E i \in 1..Len(p) : Contains(ToLower(val), ToLower(p[i]))

\* ------------------------------------------------------------------------
\* one line: tokens and the record built from them
\* ------------------------------------------------------------------------

MinCompensation == 3000000

DPThreshold == 161250000

emptyPlayer == [Club |-> <<>>, Name |-> <<>>, Pos |-> <<>>, BaseSalary |-> 0, Compensation |-> 0]

\* the salary assignment, were Compensation filled once only
setAmountOnce(p, val) ==
    IF p.BaseSalary = 0 THEN [p EXCEPT !.BaseSalary = val]
    ELSE IF p.Compensation = 0 THEN [p EXCEPT !.Compensation = val]
    ELSE p

\* the salary assignment
setAmount(p, val) ==
    IF p.BaseSalary = 0 THEN [p EXCEPT !.BaseSalary = val]
    ELSE [p EXCEPT !.Compensation = val]

\* the default case of the switch, were the space left out
nameCaseNoSpace(p, token) == [p EXCEPT !.Name = p.Name \o token]

\* the default case of the switch
nameCase(p, token) ==
    IF p.Name = <<>> THEN [p EXCEPT !.Name = token]
    ELSE [p EXCEPT !.Name = p.Name \o <<" ">> \o token]

\* the salary case of the switch, were a token that does not parse to fall
\* through to the name
amountCaseAsName(p, token) ==
    LET t == TrimLeft(token, "$")
        r == ParseFloat(RemoveAll(t, ","))
    IN  IF t = <<>> \/ ~r.ok THEN nameCase(p, token)
        ELSE setAmount(p, r.val)

\* the salary case of the switch
amountCase(p, token) ==
    LET t == TrimLeft(token, "$")
        r == ParseFloat(RemoveAll(t, ","))
    IN  IF t = <<>> THEN p
        ELSE IF ~r.ok THEN p
        ELSE setAmount(p, r.val)

startsAmount(token) == token[1] = "$" \/ IsDigit(token[1])

\* cli: the body of the loop, were a club or a position kept once it is set
classifyTokenCliKeepFirst(p, token) ==
    IF token = <<>> THEN {p}
    ELSE IF HasValCli(allClubsCli, token)
         THEN {IF p.Club = <<>> THEN [p EXCEPT !.Club = AbvCli(allClubsCli, token)] ELSE p}
    ELSE IF PosHasVal(allPosCli, token) THEN {IF p.Pos = <<>> THEN [p EXCEPT !.Pos = token] ELSE p}
    ELSE IF startsAmount(token) THEN {amountCase(p, token)}
    ELSE {nameCase(p, token)}

\* cli: the body of the loop over the tokens of a line
classifyTokenCli(p, token) ==
    IF token = <<>> THEN {p}
    ELSE IF HasValCli(allClubsCli, token) THEN {[p EXCEPT !.Club = AbvCli(allClubsCli, token)]}
    ELSE IF PosHasVal(allPosCli, token) THEN {[p EXCEPT !.Pos = token]}
    ELSE IF startsAmount(token) THEN {amountCase(p, token)}
    ELSE {nameCase(p, token)}

\* web: the body of the loop over the tokens of a line
classifyTokenWeb(p, tok) ==
    LET token == TrimSpace(tok)
    IN  IF token = <<>> THEN {p}
        ELSE IF HasValWeb(allClubsWeb, token)
             THEN IF clubOfTokenWeb(token) = {} THEN {p}
                  ELSE {[p EXCEPT !.Club = abv] : abv \in clubOfTokenWeb(token)}
        ELSE IF PosHasVal(allPosWeb, token) THEN {[p EXCEPT !.Pos = ToUpper(token)]}
        ELSE IF startsAmount(token) THEN {amountCase(p, token)}
        ELSE {nameCase(p, token)}

\* ------------------------------------------------------------------------
\* the earlier command-line programs: "cliPrev" is the main before the latest
\* one, "cli2018" the program of the 2018_09_15 data
\* ------------------------------------------------------------------------

\* cli2018: allClubs
allClubs2018 ==
    (<<"N","e","w"," ","E","n","g","l","a","n","d"," ","R","e","v","o","l","u","t","i","o","n">> :> <<"N","E">>)
    @@ (<<"O","r","l","a","n","d","o"," ","C","i","t","y"," ","S","C">> :> <<"O","R","L">>)
    @@ (<<"S","a","n"," ","J","o","s","e"," ","E","a","r","t","h","q","u","a","k","e","s">> :> <<"S","J">>)
    @@ (<<"V","a","n","c","o","u","v","e","r"," ","W","h","i","t","e","c","a","p","s">> :> <<"V","A","N">>)
    @@ (<<"C","o","l","u","m","b","u","s"," ","C","r","e","w">> :> <<"C","L","B">>)
    @@ (<<"D","C"," ","U","n","i","t","e","d">> :> <<"D","C">>)
    @@ (<<"M","i","n","n","e","s","o","t","a"," ","U","n","i","t","e","d">> :> <<"M","N","U","F","C">>)
    @@ (<<"S","e","a","t","t","l","e"," ","S","o","u","n","d","e","r","s"," ","F","C">> :> <<"S","E","A">>)
    @@ (<<"C","h","i","c","a","g","o"," ","F","i","r","e">> :> <<"C","H","I">>)
    @@ (<<"C","o","l","o","r","a","d","o"," ","R","a","p","i","d","s">> :> <<"C","O","L">>)
    @@ (<<"F","C"," ","D","a","l","l","a","s">> :> <<"D","A","L">>)
    @@ (<<"S","p","o","r","t","i","n","g"," ","K","a","n","s","a","s"," ","C","i","t","y">> :> <<"K","C">>)
    @@ (<<"L","A"," ","G","a","l","a","x","y">> :> <<"L","A">>)
    @@ (<<"L","A","F","C">> :> <<"L","A","F","C">>)
    @@ (<<"M","o","n","t","r","e","a","l"," ","I","m","p","a","c","t">> :> <<"M","T","L">>)
    @@ (<<"N","e","w"," ","Y","o","r","k"," ","R","e","d"," ","B","u","l","l","s">> :> <<"N","Y","R","B">>)
    @@ (<<"T","o","r","o","n","t","o"," ","F","C">> :> <<"T","O","R">>)
    @@ (<<"A","t","l","a","n","t","a"," ","U","n","i","t","e","d">> :> <<"A","T","L">>)
    @@ (<<"H","o","u","s","t","o","n"," ","D","y","n","a","m","o">> :> <<"H","O","U">>)
    @@ (<<"N","e","w"," ","Y","o","r","k"," ","C","i","t","y"," ","F","C">> :> <<"N","Y","C","F","C">>)
    @@ (<<"P","h","i","l","a","d","e","l","p","h","i","a"," ","U","n","i","o","n">> :> <<"P","H","I">>)
    @@ (<<"P","o","r","t","l","a","n","d"," ","T","i","m","b","e","r","s">> :> <<"P","O","R">>)
    @@ (<<"R","e","a","l"," ","S","a","l","t"," ","L","a","k","e">> :> <<"R","S","L">>)
    @@ (<<"F","C"," ","C","i","n","c","i","n","n","a","t","i">> :> <<"C","I","N">>)
    @@ (<<"N","Y">> :> <<"N","Y","R","B">>)
    @@ (<<"C","h","i","v","a","s"," ","U","S","A">> :> <<"C","H","V">>)

\* cli2018: the names Players.Set makes of allDPs
allDPs ==
    << <<"F","a","n","e","n","d","o"," ","A","d","i">>,
       <<"R","o","m","a","i","n"," ","A","l","e","s","s","a","n","d","r","i","n","i">>,
       <<"M","i","g","u","e","l"," ","A","l","m","i","r","o","n">>,
       <<"J","o","z","y"," ","A","l","t","i","d","o","r","e">>,
       <<"P","a","u","l"," ","A","r","r","i","o","l","a">>,
       <<"E","z","e","q","u","i","e","l"," ","B","a","r","c","o">>,
       <<"A","l","e","j","a","n","d","r","o"," ","B","e","d","o","y","a">>,
       <<"S","e","b","a","s","t","i","a","n"," ","B","l","a","n","c","o">>,
       <<"M","i","c","h","a","e","l"," ","B","r","a","d","l","e","y">>,
       <<"J","o","s","u","e"," ","C","o","l","m","a","n">>,
       <<"C","r","i","s","t","i","a","n"," ","C","o","l","m","a","n">>,
       <<"Y","o","h","a","n"," ","C","r","o","i","z","e","t">>,
       <<"C","l","a","u","d","e"," ","D","i","e","l","n","a">>,
       <<"B","o","r","e","k"," ","D","o","c","k","a","l">>,
       <<"G","i","o","v","a","n","i"," ","d","o","s"," ","S","a","n","t","o","s">>,
       <<"J","o","n","a","t","h","a","n"," ","d","o","s"," ","S","a","n","t","o","s">>,
       <<"D","o","m"," ","D","w","y","e","r">>,
       <<"A","l","b","e","r","t","h"," ","E","l","i","s">>,
       <<"S","h","k","e","l","z","e","n"," ","G","a","s","h","i">>,
       <<"S","e","b","a","s","t","i","a","n"," ","G","i","o","v","i","n","c","o">>,
       <<"C","a","r","l","o","s"," ","G","r","u","e","z","o">>,
       <<"F","e","l","i","p","e"," ","G","u","t","i","e","r","r","e","z">>,
       <<"F","e","d","e","r","i","c","o"," ","H","i","g","u","a","i","n">>,
       <<"A","n","d","r","e"," ","H","o","r","t","a">>,
       <<"T","i","m"," ","H","o","w","a","r","d">>,
       <<"S","a","c","h","a"," ","K","l","j","e","s","t","a","n">>,
       <<"N","i","c","o","l","a","s"," ","L","o","d","e","i","r","o">>,
       <<"J","o","s","e","f"," ","M","a","r","t","i","n","e","z">>,
       <<"T","o","m","a","s"," ","M","a","r","t","i","n","e","z">>,
       <<"J","e","s","u","s"," ","M","e","d","i","n","a">>,
       <<"L","u","c","a","s"," ","M","e","l","a","n","o">>,
       <<"M","a","x","i"," ","M","o","r","a","l","e","z">>,
       <<"S","a","n","t","i","a","g","o"," ","M","o","s","q","u","e","r","a">>,
       <<"N","e","m","a","n","j","a"," ","N","i","k","o","l","i","c">>,
       <<"I","g","n","a","c","i","o"," ","P","i","a","t","t","i">>,
       <<"V","a","l","e","r","i"," ","\"","V","a","k","o","\""," ","Q","a","z","a","i","s","h","v","i","l","i">>,
       <<"D","a","r","w","i","n"," ","Q","u","i","n","t","e","r","o">>,
       <<"A","n","g","e","l","o"," ","R","o","d","r","i","g","u","e","z">>,
       <<"W","a","y","n","e"," ","R","o","o","n","e","y">>,
       <<"A","l","e","j","a","n","d","r","o"," ","'","K","a","k","u","'"," ","R","o","m","e","r","o">>,
       <<"D","i","e","g","o"," ","R","o","s","s","i">>,
       <<"R","a","u","l"," ","R","u","i","d","i","a","z">>,
       <<"J","o","h","n","n","y"," ","R","u","s","s","e","l","l">>,
       <<"A","l","b","e","r","t"," ","R","u","s","n","a","k">>,
       <<"P","e","d","r","o"," ","S","a","n","t","o","s">>,
       <<"J","e","f","f","e","r","s","o","n"," ","S","a","v","a","r","i","n","o">>,
       <<"B","a","s","t","i","a","n"," ","S","c","h","w","e","i","n","s","t","e","i","g","e","r">>,
       <<"B","r","e","k"," ","S","h","e","a">>,
       <<"S","a","p","h","i","r"," ","T","a","i","d","e","r">>,
       <<"M","i","l","t","o","n"," ","V","a","l","e","n","z","u","e","l","a">>,
       <<"D","i","e","g","o"," ","V","a","l","e","r","i">>,
       <<"C","a","r","l","o","s"," ","V","e","l","a">>,
       <<"D","a","v","i","d"," ","V","i","l","l","a">>,
       <<"K","e","n","d","a","l","l"," ","W","a","s","t","o","n">>,
       <<"C","h","r","i","s"," ","W","o","n","d","o","l","o","w","s","k","i">>,
       <<"B","r","a","d","l","e","y"," ","W","r","i","g","h","t","-","P","h","i","l","l","i","p","s">> >>

\* strconv.ParseFloat(s, 32): the value is rounded to the nearest float32.
\* A whole amount below 2^24 is a float32 value and is returned as it is; the
\* lines given to the earlier programs hold no other amounts.
ParseFloat32(s) == ParseFloat(s)

\* the salary case of the switch of the earlier programs
amountCase32(p, token) ==
    LET t == TrimLeft(token, "$")
        r == ParseFloat32(RemoveAll(t, ","))
    IN  IF t = <<>> THEN p
        ELSE IF ~r.ok THEN p
        ELSE setAmount(p, r.val)

\* cliPrev: the body of the loop over the tokens of a line
classifyTokenPrev(p, token) ==
    IF token = <<>> THEN {p}
    ELSE IF HasValCli(allClubsCli, token) THEN {[p EXCEPT !.Club = AbvCli(allClubsCli, token)]}
    ELSE IF PosHasVal(allPosCli, token) THEN {[p EXCEPT !.Pos = token]}
    ELSE IF startsAmount(token) THEN {amountCase32(p, token)}
    ELSE {nameCase(p, token)}

\* cli2018: the body of the loop over the tokens of a line
classifyToken2018(p, token) ==
    IF token = <<>> THEN {p}
    ELSE IF HasValCli(allClubs2018, token) THEN {[p EXCEPT !.Club = AbvCli(allClubs2018, token)]}
    ELSE IF PosHasVal(allPosCli, token) THEN {[p EXCEPT !.Pos = token]}
    ELSE IF startsAmount(token) THEN {amountCase32(p, token)}
    ELSE {nameCase(p, token)}

\* ------------------------------------------------------------------------
\* the record of a line
\* ------------------------------------------------------------------------

classifyToken(v, p, token) ==
    IF v = "cli" THEN classifyTokenCli(p, token)
    ELSE IF v = "web" THEN classifyTokenWeb(p, token)
    ELSE IF v = "cliPrev" THEN classifyTokenPrev(p, token)
    ELSE classifyToken2018(p, token)

\* the records the loop over the tokens can end with, from the records ps
RECURSIVE classifyTokens(_, _, _)
classifyTokens(v, ps, tokens) ==
    IF tokens = <<>> THEN ps
    ELSE classifyTokens(v, UNION {classifyToken(v, p, Head(tokens)) : p \in ps}, Tail(tokens))

\* the records a line can give
classifyLine(v, text, s) == classifyTokens(v, {emptyPlayer}, Split(text, s))

\* the test for insufficient data, were the position left out of it
noMatchNoPos(p) == p.Club = <<>> /\ p.Compensation < MinCompensation

\* "Skip lines with insufficient data"
noMatch(p) == p.Club = <<>> /\ p.Pos = <<>> /\ p.Compensation < MinCompensation

\* ------------------------------------------------------------------------
\* the filters asked for
\* ------------------------------------------------------------------------

\* an argument is [given |-> BOOLEAN, val |-> the text]; a flag or form field
\* that is absent has given = FALSE and val = ""

Restrict(f, S) == [k \in S |-> f[k]]

trimAll(names) == [i \in 1..Len(names) |-> TrimSpace(names[i])]

upperTrimAll(names) == [i \in 1..Len(names) |-> TrimSpace(ToUpper(names[i]))]

\* cli Clubs.Set: the results it can give; ok = FALSE is the error return
ClubsSetCli(s) ==
    LET names == upperTrimAll(Split(s, ","))
    IN  IF \E i \in 1..Len(names) : getKeyCli(allClubsCli, names[i]) = {}
        THEN {[ok |-> FALSE, clubs |-> << >>]}
        ELSE {[ok |-> TRUE, clubs |-> Restrict(allClubsCli, {ch[i] : i \in 1..Len(names)})] :
                 ch \in {f \in [1..Len(names) -> DOMAIN allClubsCli] :
                           \A i \in 1..Len(names) : f[i] \in getKeyCli(allClubsCli, names[i])}}

\* cli2018 Clubs.Set: the results it can give; ok = FALSE is the error return
ClubsSet2018(s) ==
    LET names == upperTrimAll(Split(s, ","))
    IN  IF \E i \in 1..Len(names) : getKeyCli(allClubs2018, names[i]) = {}
        THEN {[ok |-> FALSE, clubs |-> << >>]}
        ELSE {[ok |-> TRUE, clubs |-> Restrict(allClubs2018, {ch[i] : i \in 1..Len(names)})] :
                 ch \in {f \in [1..Len(names) -> DOMAIN allClubs2018] :
                           \A i \in 1..Len(names) : f[i] \in getKeyCli(allClubs2018, names[i])}}

\* web: the name of one entry of the clubs field, its parenthetical removed
clubEntryWeb(raw) ==
    LET name == TrimSpace(raw)
        idx  == Index(name, "(")
    IN  IF idx # -1 THEN TrimSpace(SubSeq(name, 1, idx)) ELSE name

\* web: the club filter built from the clubs field
clubsFilterWeb(clubsStr) ==
    IF clubsStr = <<>> THEN << >>
    ELSE LET names == Split(clubsStr, ",")
             hit(full, raw) ==
                 LET lowerName == ToLower(clubEntryWeb(raw))
                 IN  \/ Contains(ToLower(full), lowerName)
                     \/ Contains(ToLower(allClubsWeb[full]), lowerName)
         IN  Restrict(allClubsWeb,
                      {full \in DOMAIN allClubsWeb : \E i \in 1..Len(names) : hit(full, names[i])})

\* cli Players.Set
PlayersSetCli(s) == trimAll(Split(s, ","))

\* web: the player filter built from the players field
playersFilterWeb(playersStr) == IF playersStr = <<>> THEN <<>> ELSE trimAll(Split(playersStr, ","))

\* cli Pos.Set; ok = FALSE is the error return
PosSetCli(s) ==
    LET ps == upperTrimAll(Split(s, ","))
    IN  IF \E i \in 1..Len(ps) : ~PosHasVal(allPosCli, ps[i])
        THEN [ok |-> FALSE, pos |-> <<>>]
        ELSE [ok |-> TRUE, pos |-> ps]

\* web: the position filter built from the Positions field
posFilterWeb(posStr) ==
    IF posStr = <<>> THEN <<>>
    ELSE LET ps == upperTrimAll(Split(posStr, ","))
             valid(x) == PosHasVal(allPosWeb, x)
         IN  SelectSeq(ps, valid)

\* ------------------------------------------------------------------------
\* order and report
\* ------------------------------------------------------------------------

\* the printable ASCII characters in the order of their codes: 32 to 95, and
\* 97 to 126 (the grave accent, 96, is in no text here)
Ascii ==
    << " ", "!", "\"", "#", "$", "%", "&", "'", "(", ")", "*", "+", ",", "-", ".", "/",
       "0", "1", "2", "3", "4", "5", "6", "7", "8", "9", ":", ";", "<", "=", ">", "?",
       "@", "A", "B", "C", "D", "E", "F", "G", "H", "I", "J", "K", "L", "M", "N", "O",
       "P", "Q", "R", "S", "T", "U", "V", "W", "X", "Y", "Z", "[", "\\", "]", "^", "_",
       "a", "b", "c", "d", "e", "f", "g", "h", "i", "j", "k", "l", "m", "n", "o",
       "p", "q", "r", "s", "t", "u", "v", "w", "x", "y", "z", "{", "|", "}", "~" >>

\* the byte of a character; the tab is 9
byteOf(c) ==
    IF c = "\t" THEN 9
    ELSE LET i == CHOOSE k \in 1..Len(Ascii) : Ascii[k] = c
         IN  IF i <= 64 THEN 31 + i ELSE 32 + i

\* a < b on Go strings: byte by byte, a proper prefix first
RECURSIVE stringLess(_, _)
stringLess(a, b) ==
    IF b = <<>> THEN FALSE
    ELSE IF a = <<>> THEN TRUE
    ELSE IF Head(a) = Head(b) THEN stringLess(Tail(a), Tail(b))
    ELSE byteOf(Head(a)) < byteOf(Head(b))

\* the less functions handed to the sorts
less(by, a, b) ==
    IF by = "Compensation" THEN a.Compensation > b.Compensation
    ELSE IF by = "Club" THEN stringLess(a.Club, b.Club)
    ELSE a.Value > b.Value

\* insertion of x into the sorted q, after every element x is not less than
RECURSIVE insertSorted(_, _, _)
insertSorted(by, q, x) ==
    IF q = <<>> THEN <<x>>
    ELSE IF less(by, x, q[Len(q)])
         THEN Append(insertSorted(by, SubSeq(q, 1, Len(q) - 1), x), q[Len(q)])
    ELSE Append(q, x)

\* sort.Slice and sort.SliceStable on a short slice: both sort a slice of at
\* most 12 elements by insertion, which keeps the elements that are not less
\* than one another in the order they had
RECURSIVE insertionSort(_, _)
insertionSort(by, q) ==
    IF q = <<>> THEN <<>>
    ELSE insertSorted(by, insertionSort(by, SubSeq(q, 1, Len(q) - 1)), q[Len(q)])

\* the order of the records, were the sort by Compensation left out
sortPlayersClubOnly(all, club) == IF club THEN insertionSort("Club", all) ELSE all

\* the two sorts of the accepted records
sortPlayers(all, club) ==
    LET s == insertionSort("Compensation", all)
    IN  IF club THEN insertionSort("Club", s) ELSE s

\* the orders in which a range over the map can give its entries
mapOrders(ct) ==
    LET n == Cardinality(DOMAIN ct)
    IN  {[i \in 1..n |-> [Key |-> f[i], Value |-> ct[f[i]]]] :
            f \in {g \in [1..n -> DOMAIN ct] : \A i, j \in 1..n : i # j => g[i] # g[j]}}

\* ClubTotals.Sort, were the sort left out
ClubTotalsSortUnsorted(ct) == mapOrders(ct)

\* ClubTotals.Sort: the slices it can return
ClubTotalsSort(ct) == {insertionSort("Value", p) : p \in mapOrders(ct)}

\* the decimal digits of n >= 0
RECURSIVE digitsOf(_)
digitsOf(n) ==
    IF n < 10 THEN <<Digits[n + 1]>>
    ELSE Append(digitsOf(n \div 10), Digits[(n % 10) + 1])

\* strconv.FormatFloat(v, f, 2, 64) for an amount of v >= 0 cents
FormatFloat(v) == digitsOf(v \div 100) \o <<".">> \o <<Digits[((v % 100) \div 10) + 1], Digits[(v % 10) + 1]>>

\* the loop of commaf that writes the groups of three from offset i (0-based)
RECURSIVE writeGroups(_, _)
writeGroups(integerPart, i) ==
    LET n == Len(integerPart)
    IN  IF i >= n THEN <<>>
        ELSE SubSeq(integerPart, i + 1, i + 3)
             \o (IF i + 3 < n THEN <<",">> ELSE <<>>)
             \o writeGroups(integerPart, i + 3)

\* commaf, were the comma after the leading group written without a test
commafLeadingComma(v) ==
    LET a     == IF v < 0 THEN -v ELSE v
        parts == Split(FormatFloat(a), ".")
        r     == Len(parts[1]) % 3
    IN  (IF v < 0 THEN <<"-">> ELSE <<>>)
        \o (IF r > 0 THEN SubSeq(parts[1], 1, r) \o <<",">> ELSE <<>>)
        \o writeGroups(parts[1], r)
        \o <<".">> \o parts[2]

\* commaf of the latest command-line report and of the HTTP variant
commaf(v) ==
    LET a              == IF v < 0 THEN -v ELSE v
        parts          == Split(FormatFloat(a), ".")
        integerPart    == parts[1]
        fractionalPart == IF Len(parts) > 1 THEN parts[2] ELSE <<>>
        n              == Len(integerPart)
        remainder      == n % 3
    IN  (IF v < 0 THEN <<"-">> ELSE <<>>)
        \o (IF remainder > 0
            THEN SubSeq(integerPart, 1, remainder) \o (IF n > remainder THEN <<",">> ELSE <<>>)
            ELSE <<>>)
        \o writeGroups(integerPart, remainder)
        \o (IF fractionalPart # <<>> THEN <<".">> \o fractionalPart ELSE <<>>)

\* the loop of the older commaf: every group of three and a comma after it
RECURSIVE writeGroupsComma(_, _)
writeGroupsComma(s, p) ==
    IF p >= Len(s) THEN <<>>
    ELSE SubSeq(s, p + 1, p + 3) \o <<",">> \o writeGroupsComma(s, p + 3)

\* commaf of the older programs: a comma after every group, the last one
\* taken back by Truncate
commafTruncate(v) ==
    LET a     == IF v < 0 THEN -v ELSE v
        parts == Split(FormatFloat(a), ".")
        first == Len(parts[1]) % 3
        buf   == (IF v < 0 THEN <<"-">> ELSE <<>>)
                 \o (IF first # 0 THEN SubSeq(parts[1], 1, first) \o <<",">> ELSE <<>>)
                 \o writeGroupsComma(parts[1], first)
    IN  SubSeq(buf, 1, Len(buf) - 1)
        \o (IF Len(parts) > 1 THEN <<".">> \o parts[2] ELSE <<>>)

\* the amount column of a row
commafOf(v, amount) == IF v \in {"cli", "web"} THEN commaf(amount) ELSE commafTruncate(amount)

\* the counter of a row, were it never set back
rowCounterNoReset(i, reset) == i

\* the counter of a row: 1 again when the club changes
rowCounter(i, reset) == IF reset THEN 1 ELSE i

\* the loop that prints the record rows; a row is the counter, whether a
\* blank line went before it, the record and its amount column
RECURSIVE printRows(_, _, _, _, _)
printRows(v, all, club, i, lastClub) ==
    IF all = <<>> THEN <<>>
    ELSE LET data  == Head(all)
             reset == club /\ data.Club # lastClub
             n     == rowCounter(i, reset)
         IN  <<[n |-> n, blank |-> reset, rec |-> data, text |-> commafOf(v, data.Compensation)]>>
             \o printRows(v, Tail(all), club, n + 1, IF reset THEN data.Club ELSE lastClub)

\* cli: the record rows of the report; all is not empty
reportRows(v, all, club) == printRows(v, all, club, 1, all[1].Club)

\* web: the range over .Players of the results template
RECURSIVE templateRows(_, _, _, _)
templateRows(all, sort, row, prevClub) ==
    IF all = <<>> THEN <<>>
    ELSE LET data    == Head(all)
             changed == sort /\ data.Club # prevClub
             reset   == changed /\ prevClub # <<>>
             n       == rowCounter(row, reset)
         IN  <<[n |-> n, blank |-> reset, rec |-> data, text |-> commaf(data.Compensation)]>>
             \o templateRows(Tail(all), sort, n + 1, IF changed THEN data.Club ELSE prevClub)

\* the rows of the totals: the counter, the club, its total and the amount
\* column
totalsRows(v, p) ==
    [i \in 1..Len(p) |-> [n |-> i, Key |-> p[i].Key, Value |-> p[i].Value,
                          text |-> commafOf(v, p[i].Value)]]

\* ------------------------------------------------------------------------
\* inputs
\* ------------------------------------------------------------------------

MaxTokens == 3

MaxLines == 2

Variants == {"cli", "web"}

noArg == [given |-> FALSE, val |-> <<>>]

\* values of -clubs / the clubs field
ClubArgs ==
    { noArg,
      [given |-> TRUE, val |-> <<"L","A","F","C">>],
      [given |-> TRUE, val |-> <<"n","y","r","b",","," ","a","t","l">>],
      [given |-> TRUE, val |-> <<"N","Y"," ","(","N","Y","R","B",")">>],
      [given |-> TRUE, val |-> <<"X","Y","Z">>] }

\* values of -pos / the Positions field
PosArgs ==
    { noArg,
      [given |-> TRUE, val |-> <<"F">>],
      [given |-> TRUE, val |-> <<"f",","," ","d">>],
      [given |-> TRUE, val |-> <<"X">>] }

\* values of -players / the players field
PlayerArgs ==
    { noArg,
      [given |-> TRUE, val |-> <<"v","e","l","a">>],
      [given |-> TRUE, val |-> <<"V","I","L","L","A",","," ","p","a","r","k","e","r">>] }

\* lines of a data file
FileLines ==
    { <<"L","A","F","C"," ","C","a","r","l","o","s"," ","V","e","l","a"," ","F"," ","$","5","0",",","0","0","0"," ","$","1",",","7","0","0",",","0","0","0">>,
      <<"N","Y","C","F","C"," ","D","a","v","i","d"," ","V","i","l","l","a"," ","F"," ","$","6","0",",","0","0","0"," ","$","1",",","6","1","2",",","5","0","0">>,
      <<"N","Y"," ","T","i","m"," ","P","a","r","k","e","r"," ","D"," ","$","5","0",",","0","0","0"," ","$","1",",","6","1","2",",","4","9","9",".","9","9">>,
      <<"A","T","L"," ","J","o","s","e","f"," ","M","a","r","t","i","n","e","z"," ","f"," ","$","7","0",",","0","0","0"," ","$","3","0",",","0","0","0">>,
      <<"T","r","i","a","l","i","s","t"," ","$","1","0",",","0","0","0"," ","$","3","0",",","0","0","0">>,
      <<"T","r","i","a","l","i","s","t"," ","$","1","0",",","0","0","0"," ","$","2","9",",","9","9","9",".","9","9">>,
      <<"F","r","e","e"," ","A","g","e","n","t"," ","D"," ","$","2","0",",","0","0","0"," ","$","2","5",",","0","0","0">>,
      <<"L","A"," ","G","a","l","a","x","y","\t","R","i","q","u","i"," ","P","u","i","g","\t","M","\t","$","9","0",",","0","0","0","\t","$","1","0","0",",","0","0","0">>,
      <<"L","A","F","C"," ","D","i","e","g","o"," ","R","o","s","s","i"," ","M"," ","$","4","0",",","0","0","0"," ","$","1","0","0",",","0","0","0">>,
      <<>> }

\* fields a line is put together from
TokenPool ==
    { <<"L","A","F","C">>,
      <<"l","a","f","c">>,
      <<"m","o","n","t","r","e","a","l">>,
      <<"N","Y">>,
      <<"L","A"," ","G","a","l","a","x","y">>,
      <<"F">>,
      <<"m">>,
      <<"V","e","l","a">>,
      <<"$","5","0",",","0","0","0">>,
      <<"2","0","0","0","0">>,
      <<"$","0">>,
      <<"$">>,
      <<"5","a">>,
      <<>> }

exampleLine ==
    <<"L","A","F","C"," ","C","a","r","l","o","s"," ","V","e","l","a"," ","F"," ","$","5","0",",","0","0","0"," ","$","6",",","3","0","0",",","0","0","0">>

\* the programs with flags before the latest one
PrevVariants == {"cliPrev", "cli2018"}

\* the lines of FileLines whose amounts are whole
FileLinesWhole == {l \in FileLines : ~Contains(l, <<".">>)}

\* the lines a data file of the program v is made of
linesOf(v) == IF v \in PrevVariants THEN FileLinesWhole ELSE FileLines

\* first lines that begin with a tab: a file that holds the tab alone, a line
\* of tab-separated fields and a line of space-separated fields
TabFirstLines ==
    { <<"\t">>,
      <<"\t">> \o <<"L","A"," ","G","a","l","a","x","y","\t","R","i","q","u","i"," ","P","u","i","g","\t","M","\t","$","9","0",",","0","0","0","\t","$","1","0","0",",","0","0","0">>,
      <<"\t">> \o <<"L","A","F","C"," ","C","a","r","l","o","s"," ","V","e","l","a"," ","F"," ","$","5","0",",","0","0","0"," ","$","1",",","7","0","0",",","0","0","0">> }

\* the first line of a data file that is not empty
FirstLines(v) == linesOf(v) \cup TabFirstLines

MaxDigits == 7

RECURSIVE pow10(_)
pow10(k) == IF k = 0 THEN 1 ELSE 10 * pow10(k - 1)

\* whole parts of every length up to MaxDigits: 0, 1, 10, ..., then 1, 12,
\* 123, ..., then 1, 19, 199, ...
WholeParts ==
    {0} \cup {pow10(k - 1) : k \in 1..MaxDigits}
        \cup {12345678 \div pow10(8 - k) : k \in 1..MaxDigits}
        \cup {2 * pow10(k - 1) - 1 : k \in 1..MaxDigits}

\* the amounts commaf is tried on, in cents
Amounts ==
    {sign * (w * 100 + c) : sign \in {-1, 1}, w \in WholeParts, c \in {0, 5, 50, 99}}
        \cup {123456750, -4200}

\* the programs whose commaf is tried
CommafVariants == {"cli", "web", "cliPrev"}

BoundedSeq(S, n) == UNION {[1..k -> S] : k \in 0..n}

\* a line whose first two fields are the words of the name of a club
clubWordsLine(s) ==
    Join(<<<<"C","h","i","c","a","g","o">>, <<"F","i","r","e">>, <<"M">>, <<"$","5","0",",","0","0","0">>, <<"$","6","0",",","0","0","0">>>>, <<s>>)

\* the lines the classifier is tried on: up to MaxTokens fields joined by the
\* separator, the example line and the line of club words
ClassifyLines(s) ==
    {Join(fs, <<s>>) : fs \in BoundedSeq(TokenPool, MaxTokens)} \cup {exampleLine, clubWordsLine(s)}

\* ------------------------------------------------------------------------
\* state
\* ------------------------------------------------------------------------

VARIABLES
    variant,        \* the program: "cli", "web", "cliPrev", "cli2018", ...
    pc,             \* "args", "open", "sep", "scan", "done", "nomatch", "fatal", "error"
    args,           \* the filter arguments as given
    clubs,          \* club filter: full name -> abbreviation
    pos,            \* position filter
    filterPlayers,  \* player filter: the names asked for
    dps,            \* designated players only
    sortByClub,     \* sort by club
    firstIsTab,     \* the first byte of the data file is a tab
    reader,         \* <<the first line, as far as it is unread>>, <<>> once it is read
    scanErr,        \* scanner.Err() is not nil
    sep,            \* field separator
    nLines,         \* lines scanned
    line,           \* the last line scanned
    player,         \* the record built from it
    verdict,        \* "none", "discarded", "rejected", "accepted"
    playersData,    \* accepted records, in file order until they are sorted
    clubTotals,     \* club -> sum of Compensation
    rows,           \* the record rows of the report
    totals,         \* the rows of the club totals
    amount,         \* an amount given to commaf, in cents
    formatted,      \* what commaf made of it
    requests,       \* web: request -> its parameters, its place in the handler, its response
    locals,         \* web: call of processData -> its playersData and clubTotals
    gaPlayers,      \* goals-and-assists report: the players read from the CSV file
    dollars,        \* goals-and-assists report: the sorted values the median is taken of
    median,         \* goals-and-assists report: [ok, val], ok = FALSE after a runtime fault
    list,           \* a list given to a String method
    joined          \* what the String method returned

flagVars == <<args, clubs, pos, filterPlayers, dps, sortByClub>>

fileVars == <<firstIsTab, reader, scanErr>>

lineVars == <<nLines, line, player, verdict>>

dataVars == <<playersData, clubTotals>>

reportVars == <<rows, totals>>

commafVars == <<amount, formatted>>

httpVars == <<requests, locals>>

medianVars == <<gaPlayers, dollars, median>>

stringVars == <<list, joined>>

\* the state of what is modelled apart from the report pipeline
apartVars == <<httpVars, medianVars, stringVars>>

vars == <<variant, pc, flagVars, fileVars, sep, lineVars, dataVars, reportVars, commafVars,
          apartVars>>

noArgs == [clubs |-> noArg, pos |-> noArg, players |-> noArg]

\* the state before flag.Parse, or at the head of processData
start ==
    /\ args = noArgs
    /\ clubs = << >>
    /\ pos = <<>>
    /\ filterPlayers = <<>>
    /\ dps = FALSE
    /\ sortByClub = FALSE
    /\ firstIsTab = FALSE
    /\ reader = <<>>
    /\ scanErr = FALSE
    /\ sep = " "
    /\ nLines = 0
    /\ line = <<>>
    /\ player = emptyPlayer
    /\ verdict = "none"
    /\ playersData = <<>>
    /\ clubTotals = << >>
    /\ rows = <<>>
    /\ totals = <<>>

\* no request, no goals-and-assists run, no String call
startApart ==
    /\ requests = <<>>
    /\ locals = <<>>
    /\ gaPlayers = <<>>
    /\ dollars = <<>>
    /\ median = [ok |-> TRUE, val |-> 0]
    /\ list = <<>>
    /\ joined = <<>>

Init ==
    /\ variant \in Variants
    /\ pc = "args"
    /\ start
    /\ amount = 0
    /\ formatted = <<>>
    /\ startApart

\* ------------------------------------------------------------------------
\* the filters of one record
\* ------------------------------------------------------------------------

\* the club test, were an empty list to reject every record
clubRejectsNoList(v, c, p) ==
    IF v = "web" THEN ~HasValWeb(c, p.Club) ELSE ~HasValCli(c, p.Club)

clubRejects(v, c, p) ==
    /\ DOMAIN c # {}
    /\ IF v = "web" THEN ~HasValWeb(c, p.Club) ELSE ~HasValCli(c, p.Club)

\* the position test, were an empty list to reject every record
posRejectsNoList(ps, p) == ~PosHasVal(ps, p.Pos)

posRejects(ps, p) == Len(ps) > 0 /\ ~PosHasVal(ps, p.Pos)

playerRejects(names, p) == Len(names) > 0 /\ ~PlayersHasVal(names, p.Name)

\* the designated-player test, were the threshold itself to fail
dpRejectsAtThreshold(dp, p) == dp /\ p.Compensation <= DPThreshold

dpRejects(dp, p) == dp /\ p.Compensation < DPThreshold

\* the filters, were the name and the designated-player test to reject only
\* together
rejectedBoth(v, c, ps, names, dp, p) ==
    IF clubRejects(v, c, p) THEN TRUE
    ELSE IF posRejects(ps, p) THEN TRUE
    ELSE playerRejects(names, p) /\ dpRejects(dp, p)

\* the filters in the order of the code: the first that rejects ends the line
rejected(v, c, ps, names, dp, p) ==
    IF clubRejects(v, c, p) THEN TRUE
    ELSE IF posRejects(ps, p) THEN TRUE
    ELSE IF playerRejects(names, p) THEN TRUE
    ELSE dpRejects(dp, p)

\* cli2018: the filters; -dp keeps the players named in allDPs
rejected2018(c, ps, names, dp, p) ==
    IF clubRejects("cli2018", c, p) THEN TRUE
    ELSE IF posRejects(ps, p) THEN TRUE
    ELSE IF dp /\ ~PlayersHasVal(allDPs, p.Name) THEN TRUE
    ELSE playerRejects(names, p)

\* the total of a club, were the amount stored instead of added
addTotalStore(ct, club, amount_) ==
    [k \in DOMAIN ct \cup {club} |-> IF k = club THEN amount_ ELSE ct[k]]

\* clubTotals[club] += amount
addTotal(ct, club, amount_) ==
    IF club \in DOMAIN ct THEN [ct EXCEPT ![club] = @ + amount_]
    ELSE [k \in DOMAIN ct \cup {club} |-> IF k = club THEN amount_ ELSE ct[k]]

\* ------------------------------------------------------------------------
\* actions
\* ------------------------------------------------------------------------

\* the outcome that ends a run that cannot go on: log.Fatal, or the error
\* return of processData and the error response of the handler
failure(v) == IF v = "web" THEN "error" ELSE "fatal"

\* the command-line programs: flag.Parse with the three filter flags, -dp and
\* -sort; a Set that returns an error ends the program
ParseFlags(ca, pa, la, dp, sc) ==
    /\ pc = "args"
    /\ variant # "web"
    /\ args' = [clubs |-> ca, pos |-> pa, players |-> la]
    /\ dps' = dp
    /\ sortByClub' = sc
    /\ \E cr \in (IF ~ca.given THEN {[ok |-> TRUE, clubs |-> << >>]}
                  ELSE IF variant = "cli2018" THEN ClubsSet2018(ca.val)
                  ELSE ClubsSetCli(ca.val)) :
          LET pr == IF pa.given THEN PosSetCli(pa.val) ELSE [ok |-> TRUE, pos |-> <<>>]
          IN  IF cr.ok /\ pr.ok
              THEN /\ clubs' = cr.clubs
                   /\ pos' = pr.pos
                   /\ filterPlayers' = (IF la.given THEN PlayersSetCli(la.val) ELSE <<>>)
                   /\ pc' = "open"
              ELSE /\ UNCHANGED <<clubs, pos, filterPlayers>>
                   /\ pc' = "fatal"
    /\ UNCHANGED <<variant, fileVars, sep, lineVars, dataVars, reportVars, commafVars, apartVars>>

\* web: the head of processData, which builds the three filters
BuildFilters(ca, pa, la, dp, sc) ==
    /\ pc = "args"
    /\ variant = "web"
    /\ args' = [clubs |-> ca, pos |-> pa, players |-> la]
    /\ dps' = dp
    /\ sortByClub' = sc
    /\ clubs' = clubsFilterWeb(ca.val)
    /\ pos' = posFilterWeb(pa.val)
    /\ filterPlayers' = playersFilterWeb(la.val)
    /\ pc' = "open"
    /\ UNCHANGED <<variant, fileVars, sep, lineVars, dataVars, reportVars, commafVars, apartVars>>

\* the data file is opened: it is not found (neither on disk nor embedded), or
\* it is empty, or it begins with the line first.  cli2018 has no separator
\* to find before the scanner loop.
OpenFile ==
    /\ pc = "open"
    /\ \/ /\ pc' = failure(variant)
          /\ UNCHANGED <<firstIsTab, reader>>
       \/ /\ pc' = (IF variant = "cli2018" THEN "scan" ELSE "sep")
          /\ reader' = <<>>
          /\ firstIsTab' = FALSE
       \/ /\ pc' = (IF variant = "cli2018" THEN "scan" ELSE "sep")
          /\ \E first \in FirstLines(variant) :
                /\ reader' = <<first>>
                /\ firstIsTab' = (first # <<>> /\ first[1] = "\t")
    /\ UNCHANGED <<variant, flagVars, scanErr, sep, lineVars, dataVars, reportVars, commafVars, apartVars>>

\* the separator, were the error of ReadByte dropped by every program
DetectSeparatorErrorDropped ==
    /\ pc = "sep"
    /\ pc' = "scan"
    /\ IF reader # <<>> /\ reader[1] # <<>> /\ reader[1][1] = "\t"
       THEN /\ sep' = "\t"
            /\ reader' = <<Tail(reader[1])>>
       ELSE /\ sep' = " "
            /\ reader' = reader
    /\ UNCHANGED <<variant, flagVars, firstIsTab, scanErr, lineVars, dataVars, reportVars,
                   commafVars, apartVars>>

\* the separator: ReadByte, and UnreadByte when the byte is not a tab.  The
\* read fails on an empty file; cliPrev drops the error and goes on with a
\* zero byte.
DetectSeparator ==
    /\ pc = "sep"
    /\ IF reader = <<>>
       THEN /\ pc' = (IF variant = "cliPrev" THEN "scan" ELSE failure(variant))
            /\ UNCHANGED <<sep, reader>>
       ELSE /\ pc' = "scan"
            /\ IF reader[1] # <<>> /\ reader[1][1] = "\t"
               THEN /\ sep' = "\t"
                    /\ reader' = <<Tail(reader[1])>>
               ELSE /\ sep' = " "
                    /\ reader' = reader
    /\ UNCHANGED <<variant, flagVars, firstIsTab, scanErr, lineVars, dataVars, reportVars,
                   commafVars, apartVars>>

\* the separator a line is split on: cli2018 looks for a tab in every line
lineSep(v, text, s) ==
    IF v = "cli2018" THEN (IF Contains(text, <<"\t">>) THEN "\t" ELSE " ") ELSE s

\* one turn of the scanner loop on the line text
ScanLine(text) ==
    /\ pc = "scan"
    /\ line' = text
    /\ nLines' = nLines + 1
    /\ reader' = <<>>
    /\ sep' = lineSep(variant, text, sep)
    /\ \E p \in classifyLine(variant, text, lineSep(variant, text, sep)) :
          /\ player' = p
          /\ IF noMatch(p)
             THEN /\ verdict' = "discarded"
                  /\ UNCHANGED <<playersData, clubTotals>>
             ELSE IF (IF variant = "cli2018"
                      THEN rejected2018(clubs, pos, filterPlayers, dps, p)
                      ELSE rejected(variant, clubs, pos, filterPlayers, dps, p))
             THEN /\ verdict' = "rejected"
                  /\ UNCHANGED <<playersData, clubTotals>>
             ELSE /\ verdict' = "accepted"
                  /\ playersData' = Append(playersData, p)
                  /\ clubTotals' = addTotal(clubTotals, p.Club, p.Compensation)
    /\ UNCHANGED <<variant, pc, flagVars, firstIsTab, scanErr, reportVars, commafVars, apartVars>>

\* the scanner gives the next line of the file: the first line is the one
\* the reader holds
ScanFileLine ==
    /\ pc = "scan"
    /\ nLines < MaxLines
    /\ IF nLines = 0
       THEN reader # <<>> /\ ScanLine(reader[1])
       ELSE \E text \in linesOf(variant) : ScanLine(text)

\* the scanner stops, at the end of the file or on a read error, and the
\* program goes on to its report.  cli and web look at scanner.Err();
\* cliPrev and cli2018 do not.
EndOfInput ==
    /\ pc = "scan"
    /\ \E err \in BOOLEAN :
          /\ ~err => nLines > 0 \/ reader = <<>> \/ (firstIsTab /\ reader = << <<>> >>)
          /\ scanErr' = err
          /\ IF err /\ variant \in {"cli", "web"}
             THEN /\ pc' = failure(variant)
                  /\ UNCHANGED <<playersData, rows, totals>>
             ELSE IF variant # "web" /\ playersData = <<>>
             THEN /\ pc' = "nomatch"
                  /\ UNCHANGED <<playersData, rows, totals>>
             ELSE LET sorted == sortPlayers(playersData, sortByClub)
                  IN  /\ pc' = "done"
                      /\ playersData' = sorted
                      /\ rows' = (IF variant = "web" THEN templateRows(sorted, sortByClub, 1, <<>>)
                                  ELSE reportRows(variant, sorted, sortByClub))
                      /\ \E p \in ClubTotalsSort(clubTotals) : totals' = totalsRows(variant, p)
    /\ UNCHANGED <<variant, flagVars, firstIsTab, reader, sep, lineVars, clubTotals, commafVars, apartVars>>

Next ==
    \/ \E ca \in ClubArgs, pa \in PosArgs, la \in PlayerArgs, dp \in BOOLEAN, sc \in BOOLEAN :
          ParseFlags(ca, pa, la, dp, sc)
    \/ \E ca \in ClubArgs, pa \in PosArgs, la \in PlayerArgs, dp \in BOOLEAN, sc \in BOOLEAN :
          BuildFilters(ca, pa, la, dp, sc)
    \/ OpenFile
    \/ DetectSeparator
    \/ ScanFileLine
    \/ EndOfInput

Spec == Init /\ [][Next]_vars

\* ------------------------------------------------------------------------
\* the classifier alone: no filter, one line from ClassifyLines
\* ------------------------------------------------------------------------

InitClassify ==
    /\ variant \in Variants
    /\ pc = "scan"
    /\ args = noArgs
    /\ clubs = << >>
    /\ pos = <<>>
    /\ filterPlayers = <<>>
    /\ dps = FALSE
    /\ sortByClub = FALSE
    /\ sep \in {" ", "\t"}
    /\ firstIsTab = (sep = "\t")
    /\ reader = <<>>
    /\ scanErr = FALSE
    /\ nLines = 0
    /\ line = <<>>
    /\ player = emptyPlayer
    /\ verdict = "none"
    /\ playersData = <<>>
    /\ clubTotals = << >>
    /\ rows = <<>>
    /\ totals = <<>>
    /\ amount = 0
    /\ formatted = <<>>
    /\ startApart

ScanFirstLine == nLines = 0 /\ \E text \in ClassifyLines(sep) : ScanLine(text)

NextClassify == ScanFirstLine

SpecClassify == InitClassify /\ [][NextClassify]_vars

\* ------------------------------------------------------------------------
\* the earlier programs with flags: cliPrev and cli2018
\* ------------------------------------------------------------------------

InitPrev ==
    /\ variant \in PrevVariants
    /\ pc = "args"
    /\ start
    /\ amount = 0
    /\ formatted = <<>>
    /\ startApart

NextPrev ==
    \/ \E ca \in ClubArgs, pa \in PosArgs, la \in PlayerArgs, dp \in BOOLEAN, sc \in BOOLEAN :
          ParseFlags(ca, pa, la, dp, sc)
    \/ OpenFile
    \/ DetectSeparator
    \/ ScanFileLine
    \/ EndOfInput

SpecPrev == InitPrev /\ [][NextPrev]_vars

\* ------------------------------------------------------------------------
\* commaf alone
\* ------------------------------------------------------------------------

InitCommaf ==
    /\ variant \in CommafVariants
    /\ pc = "commaf"
    /\ start
    /\ amount \in Amounts
    /\ formatted = <<>>
    /\ startApart

\* commaf is given the amount
Format ==
    /\ pc = "commaf"
    /\ formatted' = commafOf(variant, amount)
    /\ pc' = "done"
    /\ UNCHANGED <<variant, flagVars, fileVars, sep, lineVars, dataVars, reportVars, amount, apartVars>>

NextCommaf == Format

SpecCommaf == InitCommaf /\ [][NextCommaf]_vars

\* ------------------------------------------------------------------------
\* what the claims speak of
\* ------------------------------------------------------------------------

clubTable(v) == IF v = "cli" THEN allClubsCli ELSE allClubsWeb

posTable(v) == IF v = "cli" THEN allPosCli ELSE allPosWeb

\* the non-empty tokens of a line, in order
tokensOf(v, text, s) ==
    LET raw     == Split(text, s)
        cut     == IF v = "cli" THEN raw ELSE trimAll(raw)
        full(t) == t # <<>>
    IN  SelectSeq(cut, full)

lineTokens == tokensOf(variant, line, sep)

scanned == verdict # "none"

recognisedClub(v, t) ==
    IF v = "cli" THEN HasValCli(allClubsCli, t) ELSE HasValWeb(allClubsWeb, t)

\* the rule that handles a token: the first that matches
ruleOf(v, t) ==
    IF recognisedClub(v, t) THEN "club"
    ELSE IF PosHasVal(posTable(v), t) THEN "pos"
    ELSE IF startsAmount(t) THEN "amount"
    ELSE "name"

tokensOfRule(v, toks, rule) == LET is(t) == ruleOf(v, t) = rule IN SelectSeq(toks, is)

\* the number an amount token stands for
amountOf(t) == ParseFloat(RemoveAll(TrimLeft(t, "$"), ","))

\* the amounts of a line that parse, in order
parsedAmounts(v, toks) ==
    LET good(t) == ruleOf(v, t) = "amount" /\ amountOf(t).ok
        ts      == SelectSeq(toks, good)
    IN  [i \in 1..Len(ts) |-> amountOf(ts[i]).val]

\* the place of the first non-zero amount, 0 when there is none
firstNonZero(am) ==
    IF \E i \in 1..Len(am) : am[i] # 0
    THEN CHOOSE i \in 1..Len(am) : am[i] # 0 /\ \A j \in 1..(i - 1) : am[j] = 0
    ELSE 0

\* C1: the record of a line has as name the name-fragment tokens in their
\* order joined by single spaces, a group exactly when a token is a club
\* spelling, a category exactly when a token is a position code, amounts only
\* when a token is an amount; each token falls under the first rule that
\* matches.  The example line gives LAFC, "Carlos Vela", F, 50000, 6300000.
C1_TokenRules ==
    scanned =>
        /\ player.Name = Join(tokensOfRule(variant, lineTokens, "name"), <<" ">>)
        /\ (player.Club # <<>>) = (tokensOfRule(variant, lineTokens, "club") # <<>>)
        /\ (player.Pos # <<>>) = (tokensOfRule(variant, lineTokens, "pos") # <<>>)
        /\ (tokensOfRule(variant, lineTokens, "amount") = <<>>
               => player.BaseSalary = 0 /\ player.Compensation = 0)
        /\ (line = exampleLine /\ sep = " "
               => player = [Club |-> <<"L","A","F","C">>,
                            Name |-> <<"C","a","r","l","o","s"," ","V","e","l","a">>,
                            Pos |-> <<"F">>,
                            BaseSalary |-> 5000000,
                            Compensation |-> 630000000])

C1_Witness ==
    /\ scanned
    /\ line = exampleLine
    /\ sep = " "
    /\ player.Name = <<"C","a","r","l","o","s"," ","V","e","l","a">>

\* the abbreviations a club spelling can stand for
canonical(v, t) ==
    {a \in Range(clubTable(v)) :
        \/ \E k \in DOMAIN clubTable(v) : clubTable(v)[k] = a /\ (IF v = "cli" THEN t = k ELSE EqualFold(t, k))
        \/ (IF v = "cli" THEN t = a ELSE EqualFold(t, a))}

lastOf(q) == q[Len(q)]

\* C2: when a line has a recognised club spelling, the group is the one
\* abbreviation of that club in the table, whichever alias was written and
\* whichever way the table is walked.
C2_CanonicalGroup ==
    scanned /\ tokensOfRule(variant, lineTokens, "club") # <<>> =>
        canonical(variant, lastOf(tokensOfRule(variant, lineTokens, "club"))) = {player.Club}

C2_Witness ==
    /\ scanned
    /\ variant = "web"
    /\ \E i \in 1..Len(lineTokens) :
          /\ lineTokens[i] \in DOMAIN allClubsWeb
          /\ allClubsWeb[lineTokens[i]] = player.Club
          /\ lineTokens[i] # player.Club
    /\ \E i \in 1..Len(lineTokens) :
          /\ lineTokens[i] \notin Range(allClubsWeb)
          /\ EqualFold(lineTokens[i], <<"L","A","F","C">>)

\* a token that is a club's full name or abbreviation up to letter case
foldClub(v, t) ==
    \E k \in DOMAIN clubTable(v) : EqualFold(t, k) \/ EqualFold(t, clubTable(v)[k])

\* C3: a token that differs only in letter case from a club's full name or
\* abbreviation is taken as that club.
C3_CaseInsensitiveClub ==
    scanned =>
        LET is(t) == foldClub(variant, t)
            fc    == SelectSeq(lineTokens, is)
        IN  fc # <<>> =>
               /\ player.Club \in {clubTable(variant)[k] : k \in {f \in DOMAIN clubTable(variant) :
                      EqualFold(lastOf(fc), f) \/ EqualFold(lastOf(fc), clubTable(variant)[f])}}
               /\ \A i \in 1..Len(fc) : ruleOf(variant, fc[i]) = "club"

\* C4 as first stated: BaseSalary is the first non-zero parsed amount and
\* Compensation the parsed amount next after it.
C4_NextAmount ==
    scanned =>
        LET am == parsedAmounts(variant, lineTokens)
            i0 == firstNonZero(am)
        IN  /\ player.BaseSalary = (IF i0 = 0 THEN 0 ELSE am[i0])
            /\ player.Compensation = (IF i0 = 0 \/ i0 = Len(am) THEN 0 ELSE am[i0 + 1])

\* C4: BaseSalary is the first non-zero parsed amount of the line (0 when
\* there is none) and Compensation is the last parsed amount after it (0 when
\* there is none).
C4_LastAmount ==
    scanned =>
        LET am == parsedAmounts(variant, lineTokens)
            i0 == firstNonZero(am)
        IN  /\ player.BaseSalary = (IF i0 = 0 THEN 0 ELSE am[i0])
            /\ player.Compensation = (IF i0 = 0 \/ i0 = Len(am) THEN 0 ELSE am[Len(am)])

C4_Witness ==
    /\ scanned
    /\ LET am == parsedAmounts(variant, lineTokens)
           i0 == firstNonZero(am)
       IN  /\ i0 # 0
           /\ i0 + 1 < Len(am)
           /\ am[i0 + 1] # am[Len(am)]
           /\ player.Compensation = am[Len(am)]

\* a token of the amount rule that does not parse
badAmount(v, t) == ruleOf(v, t) = "amount" /\ ~amountOf(t).ok

\* C5: a token that starts with '$' or a digit and does not parse changes
\* nothing: the record is the one the line gives without these tokens, and
\* the scan goes on.
C5_UnparsableSkipped ==
    scanned =>
        LET keep(t) == ~badAmount(variant, t)
        IN  /\ player \in classifyTokens(variant, {emptyPlayer}, SelectSeq(lineTokens, keep))
            /\ pc = "scan"

C5_Witness ==
    /\ scanned
    /\ \E i, j \in 1..Len(lineTokens) :
          /\ i < j
          /\ badAmount(variant, lineTokens[i])
          /\ lineTokens[i] # <<"$">>
          /\ ruleOf(variant, lineTokens[j]) = "name"
          /\ player.Name = lineTokens[j]

\* a line that was kept and went through the filters
filtered == verdict \in {"accepted", "rejected"}

\* C6: a line is discarded exactly when its record has no group, no category
\* and a Compensation below 30000; a discarded line adds no record and
\* changes no total; every record kept has a group, a category or a
\* Compensation of 30000 or more.
C6_DiscardRule ==
    /\ [](scanned =>
            ((verdict = "discarded") =
                (player.Club = <<>> /\ player.Pos = <<>> /\ player.Compensation < 3000000)))
    /\ [](\A i \in 1..Len(playersData) :
            \/ playersData[i].Club # <<>>
            \/ playersData[i].Pos # <<>>
            \/ playersData[i].Compensation >= 3000000)
    /\ [][nLines' # nLines /\ verdict' = "discarded"
             => playersData' = playersData /\ clubTotals' = clubTotals]_vars

C6_Witness ==
    /\ verdict = "discarded"
    /\ player.Name # <<>>
    /\ player.Compensation = 2999999
    /\ \E i \in 1..Len(playersData) :
          /\ playersData[i].Club = <<>>
          /\ playersData[i].Pos = <<>>
          /\ playersData[i].Compensation = 3000000

\* the four filter dimensions of the record of the last line
clubDim ==
    \/ DOMAIN clubs = {}
    \/ \E k \in DOMAIN clubs :
          IF variant = "cli" THEN player.Club = clubs[k] ELSE EqualFold(player.Club, clubs[k])

posDim == pos = <<>> \/ \E i \in 1..Len(pos) : ToUpper(player.Pos) = pos[i]

nameDim ==
    \/ filterPlayers = <<>>
    \/ \E i \in 1..Len(filterPlayers) : Contains(ToLower(player.Name), ToLower(filterPlayers[i]))

dpDim == ~dps \/ player.Compensation >= 161250000

\* C7: a kept record is accepted exactly when it passes the club, the
\* position, the name and the designated-player dimension, all four; a
\* dimension that was not asked for has an empty list and passes every record.
C7_AllDimensions ==
    /\ (~args.clubs.given => DOMAIN clubs = {})
    /\ (~args.pos.given => pos = <<>>)
    /\ (~args.players.given => filterPlayers = <<>>)
    /\ (filtered => ((verdict = "accepted") = (dpDim /\ nameDim /\ posDim /\ clubDim)))

C7_Witness ==
    /\ verdict = "accepted"
    /\ DOMAIN clubs # {}
    /\ pos # <<>>
    /\ filterPlayers # <<>>
    /\ dps

\* the clubs the user listed: an entry names a club by its abbreviation or by
\* one of its full names, a parenthetical after the name left aside
listedClubs ==
    LET tbl     == clubTable(variant)
        entries == Split(args.clubs.val, ",")
        name(i) == clubEntryWeb(entries[i])
    IN  {a \in Range(tbl) : \E i \in 1..Len(entries) :
            \/ EqualFold(name(i), a)
            \/ \E k \in DOMAIN tbl : EqualFold(name(i), k) /\ tbl[k] = a}

\* C8: with a club list in force, a record passes the club dimension exactly
\* when its group is one of the clubs the user listed.
C8_ClubMembership ==
    filtered /\ args.clubs.given /\ DOMAIN clubs # {} =>
        /\ (verdict = "accepted" => player.Club \in listedClubs)
        /\ (player.Club \in listedClubs /\ posDim /\ nameDim /\ dpDim => verdict = "accepted")

\* the names the user listed
listedNames == trimAll(Split(args.players.val, ","))

nameListed ==
    \E i \in 1..Len(listedNames) : Contains(ToLower(player.Name), ToLower(listedNames[i]))

acceptedUnder(c, ps, names, dp, p) == ~noMatch(p) /\ ~rejected(variant, c, ps, names, dp, p)

\* C11: filtering is monotonic: every record accepted under the filters of
\* the run is also accepted by the run that differs only in that one of the
\* four dimensions (club list, position list, name list, designated-only
\* flag) is not supplied, so a run with one more dimension never accepts more.
C11_FilterMonotonic ==
    \A i \in 1..Len(playersData) :
        LET p == playersData[i]
        IN  /\ acceptedUnder(clubs, pos, filterPlayers, dps, p)
            /\ acceptedUnder(<< >>, pos, filterPlayers, dps, p)
            /\ acceptedUnder(clubs, <<>>, filterPlayers, dps, p)
            /\ acceptedUnder(clubs, pos, <<>>, dps, p)
            /\ acceptedUnder(clubs, pos, filterPlayers, FALSE, p)

\* a record is accepted under all four dimensions, and the line after it is
\* rejected by them
C11_Witness ==
    /\ DOMAIN clubs # {} /\ Len(pos) > 0 /\ Len(filterPlayers) > 0 /\ dps
    /\ verdict = "rejected"
    /\ Len(playersData) = 1

RECURSIVE sumCompensation(_, _)
sumCompensation(ps, g) ==
    IF ps = <<>> THEN 0
    ELSE (IF Head(ps).Club = g THEN Head(ps).Compensation ELSE 0) + sumCompensation(Tail(ps), g)

\* C12: after any sequence of lines the totals hold exactly the groups of
\* the accepted records (the empty group under the empty code), and the total
\* of a group is the sum of secondaryAmount over the accepted records of that
\* group, each counted once; discarded and rejected lines add nothing.
C12_TotalsAreSums ==
    /\ DOMAIN clubTotals = {playersData[i].Club : i \in 1..Len(playersData)}
    /\ \A g \in DOMAIN clubTotals : clubTotals[g] = sumCompensation(playersData, g)

\* two accepted records without a club are summed under the empty code
C12_Witness ==
    /\ Len(playersData) = 2
    /\ playersData[1].Club = <<>> /\ playersData[2].Club = <<>>
    /\ clubTotals[<<>>] = playersData[1].Compensation + playersData[2].Compensation
    /\ clubTotals[<<>>] > 0

\* ------------------------------------------------------------------------
\* C13 .. C16: the order and the numbering of the report
\* ------------------------------------------------------------------------

\* the records of the rows, in the order of the report
recordsOf(rs) == [i \in 1..Len(rs) |-> rs[i].rec]

count(q, x) == Cardinality({i \in 1..Len(q) : q[i] = x})

isPermutation(q, r) ==
    /\ Len(q) = Len(r)
    /\ \A x \in SeqRange(q) \cup SeqRange(r) : count(q, x) = count(r, x)

\* C13: the rows of the report are a permutation of the accepted records in
\* which, of two adjacent rows, the earlier has the greater or equal
\* Compensation when the sort by group is off, and when it is on the earlier
\* has the smaller or equal group and, the groups being equal, the greater or
\* equal Compensation.
C13_FinalOrder ==
    [][pc = "scan" /\ pc' = "done" =>
          LET out == recordsOf(rows')
          IN  /\ isPermutation(out, playersData)
              /\ playersData' = out
              /\ \A i \in 1..(Len(out) - 1) :
                    IF sortByClub
                    THEN /\ ~stringLess(out[i + 1].Club, out[i].Club)
                         /\ out[i].Club = out[i + 1].Club
                               => out[i].Compensation >= out[i + 1].Compensation
                    ELSE out[i].Compensation >= out[i + 1].Compensation]_vars

\* with the sort by group on, the record scanned last comes first although it
\* has the smaller Compensation, its group being the smaller
C13_Witness ==
    /\ pc = "done"
    /\ sortByClub
    /\ Len(rows) = 2
    /\ verdict = "accepted" /\ rows[1].rec = player
    /\ stringLess(rows[1].rec.Club, rows[2].rec.Club)
    /\ rows[1].rec.Compensation < rows[2].rec.Compensation

\* C14: the order of the report is deterministic: the record rows and the
\* rows of the totals a run emits are the rows of every run over the same
\* input, filters and flags, also when records have equal secondaryAmount or
\* groups have equal totals.
C14_Deterministic ==
    pc = "done" =>
        /\ rows = (IF variant = "web"
                   THEN templateRows(sortPlayers(playersData, sortByClub), sortByClub, 1, <<>>)
                   ELSE reportRows(variant, sortPlayers(playersData, sortByClub), sortByClub))
        /\ \A p \in ClubTotalsSort(clubTotals) : totals = totalsRows(variant, p)

\* the groups of the accepted records
groupsOf(ps) == {ps[i].Club : i \in 1..Len(ps)}

\* C15: the totals list every group that has an accepted record exactly
\* once and nothing else, each with the sum of its records, in non-increasing
\* order of the sums, numbered from 1 without a gap.
C15_TotalsSection ==
    pc \in {"done", "nomatch"} =>
        /\ {totals[i].Key : i \in 1..Len(totals)} = groupsOf(playersData)
        /\ Len(totals) = Cardinality(groupsOf(playersData))
        /\ \A i \in 1..Len(totals) :
              /\ totals[i].n = i
              /\ totals[i].Value = sumCompensation(playersData, totals[i].Key)
        /\ \A i \in 1..(Len(totals) - 1) : totals[i].Value >= totals[i + 1].Value

\* two groups with different sums: the group of the record scanned last has
\* the greater sum and is listed first
C15_Witness ==
    /\ pc = "done"
    /\ Len(totals) = 2
    /\ totals[1].Value > totals[2].Value
    /\ verdict = "accepted" /\ player.Club = totals[1].Key

\* C16: in the command-line report the rows carry a counter that starts at
\* 1 and grows by 1 with every row; with the sort by group on, exactly the
\* rows whose group differs from the group of the row before are preceded by
\* a blank line and numbered 1 again; with the sort by group off there is no
\* blank line and the rows are numbered 1..n.
C16_RowCounter ==
    pc = "done" /\ variant # "web" =>
        /\ rows[1].n = 1 /\ ~rows[1].blank
        /\ \A i \in 2..Len(rows) :
              IF sortByClub /\ rows[i].rec.Club # rows[i - 1].rec.Club
              THEN rows[i].n = 1 /\ rows[i].blank
              ELSE rows[i].n = rows[i - 1].n + 1 /\ ~rows[i].blank

\* a second row of another club starts again at 1 after a blank line
C16_Witness ==
    /\ pc = "done" /\ variant = "cli"
    /\ sortByClub
    /\ Len(rows) = 2
    /\ rows[1].rec.Club # rows[2].rec.Club
    /\ rows[2].n = 1 /\ rows[2].blank

\* ------------------------------------------------------------------------
\* C17: commaf
\* ------------------------------------------------------------------------

allDigits(s) == \A i \in 1..Len(s) : IsDigit(s[i])

RECURSIVE concat(_)
concat(ss) == IF ss = <<>> THEN <<>> ELSE Head(ss) \o concat(Tail(ss))

\* C17: commaf renders an amount as an optional "-", the digits of the whole
\* part in groups separated by commas (the first group of 1 to 3 digits, every
\* later group of exactly 3, no comma before the first or after the last),
\* then "." and exactly two fraction digits; the digits are those of the
\* amount.  1234567.5 gives "1,234,567.50" and -42 gives "-42.00".
C17_CommafShape ==
    formatted # <<>> =>
        LET neg    == formatted[1] = "-"
            body   == IF neg THEN Tail(formatted) ELSE formatted
            dot    == Index(body, ".")
            whole  == SubSeq(body, 1, dot)
            frac   == SubSeq(body, dot + 2, Len(body))
            groups == Split(whole, ",")
        IN  /\ neg <=> amount < 0
            /\ dot > 0
            /\ Len(frac) = 2 /\ allDigits(frac)
            /\ Len(groups[1]) \in 1..3
            /\ \A i \in 2..Len(groups) : Len(groups[i]) = 3
            /\ \A i \in 1..Len(groups) : allDigits(groups[i])
            /\ DecVal(concat(groups)) * 100 + DecVal(frac) = (IF amount < 0 THEN -amount ELSE amount)
            /\ amount = 123456750 => formatted = <<"1",",","2","3","4",",","5","6","7",".","5","0">>
            /\ amount = -4200 => formatted = <<"-","4","2",".","0","0">>

\* a negative amount whose whole part has six digits, by the older commaf
C17_Witness ==
    /\ pc = "done"
    /\ variant = "cliPrev"
    /\ amount = -12345699
    /\ formatted = <<"-","1","2","3",",","4","5","6",".","9","9">>

\* ------------------------------------------------------------------------
\* C18, C19: the data file
\* ------------------------------------------------------------------------

\* the separator of a file, by its first byte
fileSep == IF firstIsTab THEN "\t" ELSE " "

\* C18: the separator is chosen once per file from its first byte, tab when
\* that byte is a tab and space otherwise; every line is split on it; and
\* when the first byte is not a tab the first line is read whole.
C18_SeparatorFromFirstByte ==
    [][/\ pc = "sep" /\ pc' = "scan" =>
             /\ sep' = fileSep
             /\ ~firstIsTab => reader' = reader
       /\ nLines' = nLines + 1 =>
             /\ sep' = fileSep
             /\ player' \in classifyLine(variant, line', fileSep)
             /\ nLines = 0 => line' = reader[1]]_vars

\* C19: a run whose data file cannot be opened or whose reading fails ends in
\* the error outcome; it has emitted no record row and no row of the totals,
\* and rows are emitted only after all lines were read without an error.
C19_NoPartialOutput ==
    /\ pc \in {"fatal", "error"} => rows = <<>> /\ totals = <<>>
    /\ scanErr => pc \in {"fatal", "error"}
    /\ rows # <<>> \/ totals # <<>> => pc = "done" /\ ~scanErr

\* ------------------------------------------------------------------------
\* the earliest programs, which take the fields of a line by their place:
\* "cli2017" is the program of the 2017_04_15 data, "cli2018a" the program of
\* the 2018_05_01 data
\* ------------------------------------------------------------------------

\* cli2017: allClubs
allClubs2017 ==
    << <<"N","E">>,
       <<"O","R","L">>,
       <<"S","J">>,
       <<"V","A","N">>,
       <<"C","L","B">>,
       <<"D","C">>,
       <<"M","N","U","F","C">>,
       <<"S","E","A">>,
       <<"C","H","I">>,
       <<"C","O","L">>,
       <<"D","A","L">>,
       <<"K","C">>,
       <<"L","A">>,
       <<"L","A","F","C">>,
       <<"M","T","L">>,
       <<"N","Y","R","B">>,
       <<"T","O","R">>,
       <<"A","T","L">>,
       <<"H","O","U">>,
       <<"N","Y","C","F","C">>,
       <<"P","H","I">>,
       <<"P","O","R">>,
       <<"R","S","L">> >>

\* cli2018a: allClubs
allClubs2018a ==
    << [Name |-> <<"N","E">>, FullName |-> <<"N","e","w"," ","E","n","g","l","a","n","d"," ","R","e","v","o","l","u","t","i","o","n">>],
       [Name |-> <<"O","R","L">>, FullName |-> <<"O","r","l","a","n","d","o"," ","C","i","t","y"," ","S","C">>],
       [Name |-> <<"S","J">>, FullName |-> <<"S","a","n"," ","J","o","s","e"," ","E","a","r","t","h","q","u","a","k","e","s">>],
       [Name |-> <<"V","A","N">>, FullName |-> <<"V","a","n","c","o","u","v","e","r"," ","W","h","i","t","e","c","a","p","s">>],
       [Name |-> <<"C","L","B">>, FullName |-> <<"C","o","l","u","m","b","u","s"," ","C","r","e","w">>],
       [Name |-> <<"D","C">>, FullName |-> <<"D","C"," ","U","n","i","t","e","d">>],
       [Name |-> <<"M","N","U","F","C">>, FullName |-> <<"M","i","n","n","e","s","o","t","a"," ","U","n","i","t","e","d">>],
       [Name |-> <<"S","E","A">>, FullName |-> <<"S","e","a","t","t","l","e"," ","S","o","u","n","d","e","r","s"," ","F","C">>],
       [Name |-> <<"C","H","I">>, FullName |-> <<"C","h","i","c","a","g","o"," ","F","i","r","e">>],
       [Name |-> <<"C","O","L">>, FullName |-> <<"C","o","l","o","r","a","d","o"," ","R","a","p","i","d","s">>],
       [Name |-> <<"D","A","L">>, FullName |-> <<"F","C"," ","D","a","l","l","a","s">>],
       [Name |-> <<"K","C">>, FullName |-> <<"S","p","o","r","t","i","n","g"," ","K","a","n","s","a","s"," ","C","i","t","y">>],
       [Name |-> <<"L","A">>, FullName |-> <<"L","A"," ","G","a","l","a","x","y">>],
       [Name |-> <<"L","A","F","C">>, FullName |-> <<"L","A","F","C">>],
       [Name |-> <<"M","T","L">>, FullName |-> <<"M","o","n","t","r","e","a","l"," ","I","m","p","a","c","t">>],
       [Name |-> <<"N","Y","R","B">>, FullName |-> <<"N","e","w"," ","Y","o","r","k"," ","R","e","d"," ","B","u","l","l","s">>],
       [Name |-> <<"T","O","R">>, FullName |-> <<"T","o","r","o","n","t","o"," ","F","C">>],
       [Name |-> <<"A","T","L">>, FullName |-> <<"A","t","l","a","n","t","a"," ","U","n","i","t","e","d">>],
       [Name |-> <<"H","O","U">>, FullName |-> <<"H","o","u","s","t","o","n"," ","D","y","n","a","m","o">>],
       [Name |-> <<"N","Y","C","F","C">>, FullName |-> <<"N","e","w"," ","Y","o","r","k"," ","C","i","t","y"," ","F","C">>],
       [Name |-> <<"P","H","I">>, FullName |-> <<"P","h","i","l","a","d","e","l","p","h","i","a"," ","U","n","i","o","n">>],
       [Name |-> <<"P","O","R">>, FullName |-> <<"P","o","r","t","l","a","n","d"," ","T","i","m","b","e","r","s">>],
       [Name |-> <<"R","S","L">>, FullName |-> <<"R","e","a","l"," ","S","a","l","t"," ","L","a","k","e">>] >>

\* cli2017: Clubs.Set; ok = FALSE is the error return
ClubsSet2017(s) ==
    LET names == upperTrimAll(Split(s, ","))
    IN  IF \E i \in 1..Len(names) : names[i] \notin SeqRange(allClubs2017)
        THEN [ok |-> FALSE, clubs |-> <<>>]
        ELSE [ok |-> TRUE, clubs |-> names]

\* cli2018a: Clubs.hasVal
hasVal2018a(c, s) == \E i \in 1..Len(c) : c[i].Name = s \/ c[i].FullName = s

\* cli2018a: Clubs.Set; ok = FALSE is the error return
ClubsSet2018a(s) ==
    LET names == upperTrimAll(Split(s, ","))
        found(name) == CHOOSE i \in 1..Len(allClubs2018a) :
                           /\ allClubs2018a[i].Name = name \/ allClubs2018a[i].FullName = name
                           /\ \A j \in 1..(i - 1) :
                                 allClubs2018a[j].Name # name /\ allClubs2018a[j].FullName # name
    IN  IF \E i \in 1..Len(names) : ~hasVal2018a(allClubs2018a, names[i])
        THEN [ok |-> FALSE, clubs |-> <<>>]
        ELSE [ok |-> TRUE, clubs |-> [i \in 1..Len(names) |-> allClubs2018a[found(names[i])]]]

\* an amount whose error is dropped: ParseFloat returns 0 with a syntax error
amountOrZero(s) ==
    LET r == ParseFloat32(RemoveAll(s, ","))
    IN  IF r.ok THEN r.val ELSE 0

skipped == [outcome |-> "skipped", rec |-> emptyPlayer]

fault == [outcome |-> "fault", rec |-> emptyPlayer]

\* cli2017: the body of the scanner loop.  tokens[k + 1] here is tokens[k] in
\* the code, and i is the index of the first "$" in tokens[1:].  An index or a
\* slice out of range is the outcome "fault".
parseLine2017(c, text) ==
    LET tokens  == Split(text, " ")
        n       == Len(tokens)
        dollarAt == {k \in 0..(n - 2) : tokens[k + 2] = <<"$">>}
    IN  IF tokens[1] \notin SeqRange(c) THEN skipped
        ELSE IF dollarAt = {} THEN skipped
        ELSE LET i == CHOOSE k \in dollarAt : \A m \in dollarAt : k <= m
             IN  IF i + 3 >= n THEN fault
                 ELSE IF tokens[i + 4] # <<"$">> THEN skipped
                 ELSE IF i < 1 THEN fault
                 ELSE IF i + 4 >= n THEN fault
                 ELSE [outcome |-> "accepted",
                       rec |-> [Club |-> tokens[1],
                                Name |-> Join(SubSeq(tokens, 2, i), <<" ">>),
                                Pos |-> tokens[i + 1],
                                BaseSalary |-> amountOrZero(tokens[i + 3]),
                                Compensation |-> amountOrZero(tokens[i + 5])]]

\* cli2018a: the body of the scanner loop; the fields are first name, last
\* name, club, position, base salary, compensation
parseLine2018a(c, text) ==
    LET tokens == Split(text, "\t")
    IN  IF Len(tokens) < 6 THEN skipped
        ELSE IF ~hasVal2018a(c, tokens[3]) THEN skipped
        ELSE IF tokens[5] = <<>> THEN fault
        ELSE IF tokens[6] = <<>> THEN fault
        ELSE LET fullclub == CHOOSE i \in 1..Len(allClubs2018a) :
                                 /\ allClubs2018a[i].Name = tokens[3] \/ allClubs2018a[i].FullName = tokens[3]
                                 /\ \A j \in 1..(i - 1) : allClubs2018a[j].Name # tokens[3]
                                                          /\ allClubs2018a[j].FullName # tokens[3]
             IN  [outcome |-> "accepted",
                  rec |-> [Club |-> allClubs2018a[fullclub].Name,
                           Name |-> tokens[1] \o <<" ">> \o tokens[2],
                           Pos |-> tokens[4],
                           BaseSalary |-> amountOrZero(Tail(tokens[5])),
                           Compensation |-> amountOrZero(Tail(tokens[6]))]]

parseLineIndexed(v, c, text) ==
    IF v = "cli2017" THEN parseLine2017(c, text) ELSE parseLine2018a(c, text)

IndexedVariants == {"cli2017", "cli2018a"}

MaxFields == 6

\* values of -clubs
IndexedClubArgs ==
    { noArg,
      [given |-> TRUE, val |-> <<"l","a",","," ","s","e","a">>],
      [given |-> TRUE, val |-> <<"X","Y","Z">>] }

\* fields the lines of the earliest programs are put together from
FieldPool(v) ==
    IF v = "cli2017"
    THEN {<<"L","A">>, <<"$">>, <<"5","0",",","0","0","0">>}
    ELSE {<<"L","A">>, <<"$","6","0",",","0","0","0">>, <<>>}

\* the separator the program splits on
sepIndexed(v) == IF v = "cli2017" THEN " " ELSE "\t"

\* the first line of a file: blank, or 1 to MaxFields fields
IndexedFirstLines(v) ==
    {<<>>} \cup {Join(fs, <<sepIndexed(v)>>) : fs \in BoundedSeq(FieldPool(v), MaxFields) \ {<<>>}}

\* lines in the format of the data of the program
IndexedLines(v) ==
    IF v = "cli2017"
    THEN {<<"L","A"," ","R","o","m","a","i","n"," ","A","l","e","s","s","a","n","d","r","i","n","i"," ","M"," ","$"," ","5","0",",","0","0","0"," ","$"," ","1",",","9","0","0",",","0","0","0">>, <<"S","E","A"," ","C","l","i","n","t"," ","D","e","m","p","s","e","y"," ","F"," ","$"," ","9","0",",","0","0","0"," ","$"," ","1",",","9","0","0",",","0","0","0">>}
    ELSE {<<"R","o","m","a","i","n","\t","A","l","e","s","s","a","n","d","r","i","n","i","\t","L","A","\t","M","\t","$","5","0",",","0","0","0","\t","$","1",",","9","0","0",",","0","0","0">>,
          <<"C","l","i","n","t","\t","D","e","m","p","s","e","y","\t","S","E","A","\t","F","\t","$","9","0",",","0","0","0","\t","$","1",",","9","0","0",",","0","0","0">>}

InitIndexed ==
    /\ variant \in IndexedVariants
    /\ pc = "args"
    /\ start
    /\ amount = 0
    /\ formatted = <<>>
    /\ startApart

\* flag.Parse with -clubs and the sort flag; no -clubs means all the clubs
ParseFlagsIndexed(ca, sc) ==
    /\ pc = "args"
    /\ args' = [clubs |-> ca, pos |-> noArg, players |-> noArg]
    /\ sortByClub' = sc
    /\ LET cr == IF ~ca.given THEN [ok |-> TRUE, clubs |-> <<>>]
                 ELSE IF variant = "cli2017" THEN ClubsSet2017(ca.val)
                 ELSE ClubsSet2018a(ca.val)
       IN  IF cr.ok
           THEN /\ clubs' = (IF Len(cr.clubs) # 0 THEN cr.clubs
                             ELSE IF variant = "cli2017" THEN allClubs2017
                             ELSE allClubs2018a)
                /\ pc' = "open"
           ELSE /\ UNCHANGED clubs
                /\ pc' = "fatal"
    /\ UNCHANGED <<variant, pos, filterPlayers, dps, fileVars, sep, lineVars, dataVars,
                   reportVars, commafVars, apartVars>>

\* os.Open: panic(err) when it fails
OpenFileIndexed ==
    /\ pc = "open"
    /\ \/ /\ pc' = "panic"
          /\ UNCHANGED <<reader, sep>>
       \/ /\ pc' = "scan"
          /\ sep' = sepIndexed(variant)
          /\ UNCHANGED reader
    /\ UNCHANGED <<variant, flagVars, firstIsTab, scanErr, lineVars, dataVars, reportVars,
                   commafVars, apartVars>>

\* one turn of the scanner loop on the line text
ScanLineIndexed(text) ==
    /\ pc = "scan"
    /\ line' = text
    /\ nLines' = nLines + 1
    /\ LET r == parseLineIndexed(variant, clubs, text)
       IN  /\ verdict' = r.outcome
           /\ player' = r.rec
           /\ pc' = (IF r.outcome = "fault" THEN "panic" ELSE "scan")
           /\ IF r.outcome = "accepted"
              THEN /\ playersData' = Append(playersData, r.rec)
                   /\ clubTotals' = addTotal(clubTotals, r.rec.Club, r.rec.Compensation)
              ELSE UNCHANGED <<playersData, clubTotals>>
    /\ UNCHANGED <<variant, flagVars, fileVars, sep, reportVars, commafVars, apartVars>>

ScanFileLineIndexed ==
    /\ pc = "scan"
    /\ nLines < MaxLines
    /\ IF nLines = 0
       THEN \E text \in IndexedFirstLines(variant) : ScanLineIndexed(text)
       ELSE \E text \in IndexedLines(variant) : ScanLineIndexed(text)

\* cli2017: the rows of the records and of the totals carry no counter
rows2017(all) == [i \in 1..Len(all) |-> [rec |-> all[i], text |-> commafTruncate(all[i].Compensation)]]

totals2017(p) ==
    [i \in 1..Len(p) |-> [Key |-> p[i].Key, Value |-> p[i].Value, text |-> commafTruncate(p[i].Value)]]

\* the scanner stops, at the end of the file or on a read error that is not
\* looked at; the records are sorted and the report is printed.  cli2018a
\* takes the club of all[0], which is out of range without a record.
EndOfInputIndexed ==
    /\ pc = "scan"
    /\ \E err \in BOOLEAN :
          scanErr' = err
    /\ LET sorted == sortPlayers(playersData, sortByClub)
       IN  IF variant = "cli2018a" /\ playersData = <<>>
           THEN /\ pc' = "panic"
                /\ UNCHANGED <<playersData, rows, totals>>
           ELSE /\ pc' = "done"
                /\ playersData' = sorted
                /\ rows' = (IF variant = "cli2017" THEN rows2017(sorted)
                            ELSE reportRows(variant, sorted, sortByClub))
                /\ \E p \in ClubTotalsSort(clubTotals) :
                      totals' = (IF variant = "cli2017" THEN totals2017(p)
                                 ELSE totalsRows(variant, p))
    /\ UNCHANGED <<variant, flagVars, firstIsTab, reader, sep, lineVars, clubTotals, commafVars, apartVars>>

NextIndexed ==
    \/ \E ca \in IndexedClubArgs, sc \in BOOLEAN : ParseFlagsIndexed(ca, sc)
    \/ OpenFileIndexed
    \/ ScanFileLineIndexed
    \/ EndOfInputIndexed

SpecIndexed == InitIndexed /\ [][NextIndexed]_vars

\* ------------------------------------------------------------------------
\* C20: every line is handled
\* ------------------------------------------------------------------------

\* C20: every line, whatever its shape (blank, too few fields, an empty
\* salary field, a lone "$" near the end, a "$" right after the club), ends as
\* a record or is skipped: no line ends in a runtime fault, and the scanner
\* goes on to the next line.
C20_EveryLineHandled ==
    [][nLines' = nLines + 1 =>
          /\ verdict' \in {"accepted", "rejected", "discarded", "skipped"}
          /\ pc' = "scan"]_vars

\* ------------------------------------------------------------------------
\* web: the handlers /filter and /players, each request in a goroutine of its
\* own
\* ------------------------------------------------------------------------

MaxRequests == 2

\* dataFS: the embedded files by their path
embeddedFiles ==
    (<<"d","a","t","a","/","2","0","1","8","_","0","9","_","1","5","_","d","a","t","a">> :>
        << <<"L","A","F","C"," ","C","a","r","l","o","s"," ","V","e","l","a"," ","F"," ","$","5","0",",","0","0","0"," ","$","1",",","7","0","0",",","0","0","0">>,
           <<"N","Y","C","F","C"," ","D","a","v","i","d"," ","V","i","l","l","a"," ","F"," ","$","6","0",",","0","0","0"," ","$","1",",","6","1","2",",","5","0","0">> >>)
    @@ (<<"d","a","t","a","/","2","0","1","8","_","0","5","_","0","1","_","d","a","t","a">> :>
        << <<"\t","L","A"," ","G","a","l","a","x","y","\t","R","o","m","a","i","n"," ","A","l","e","s","s","a","n","d","r","i","n","i","\t","M","\t","$","5","0",",","0","0","0","\t","$","1",",","9","0","0",",","0","0","0">> >>)

\* files of the host that are no part of the data set, by their path
hostFiles ==
    (<<"/","s","r","v","/","p","a","y","r","o","l","l",".","t","x","t">> :>
        << <<"F","i","n","a","n","c","e"," ","D","i","r","e","c","t","o","r"," ","$","2","5","0",",","0","0","0"," ","$","3","0","0",",","0","0","0">> >>)

\* fs.ValidPath: no empty element, no "." and no ".." among the elements
validPath(name) ==
    LET els == Split(name, "/")
    IN  \A i \in 1..Len(els) : els[i] \notin {<<>>, <<".">>, <<".", ".">>}

\* the file processData reads for the data parameter: os.Open of the
\* parameter itself, and when that fails dataFS.Open of "data/" + parameter
openData(dataFile) ==
    LET embedded == <<"d","a","t","a","/">> \o dataFile
    IN  IF dataFile \in DOMAIN hostFiles
        THEN [ok |-> TRUE, fs |-> "host", path |-> dataFile, lines |-> hostFiles[dataFile]]
        ELSE IF validPath(embedded) /\ embedded \in DOMAIN embeddedFiles
        THEN [ok |-> TRUE, fs |-> "embedded", path |-> embedded, lines |-> embeddedFiles[embedded]]
        ELSE [ok |-> FALSE, fs |-> "none", path |-> <<>>, lines |-> <<>>]

\* the requests sent: the handler and the form values data, clubs and sort
HttpRequests ==
    { [handler |-> "filter", data |-> <<"2","0","1","8","_","0","9","_","1","5","_","d","a","t","a">>, clubs |-> <<>>, sort |-> TRUE],
      [handler |-> "filter", data |-> <<"2","0","1","8","_","0","9","_","1","5","_","d","a","t","a">>, clubs |-> <<"L","A","F","C">>, sort |-> FALSE],
      [handler |-> "filter", data |-> <<"2","0","1","8","_","0","5","_","0","1","_","d","a","t","a">>, clubs |-> <<>>, sort |-> FALSE],
      [handler |-> "filter", data |-> <<"/","s","r","v","/","p","a","y","r","o","l","l",".","t","x","t">>, clubs |-> <<>>, sort |-> FALSE],
      [handler |-> "filter", data |-> <<".",".","/","m","a","i","n",".","g","o">>, clubs |-> <<>>, sort |-> FALSE],
      [handler |-> "players", data |-> <<"2","0","1","8","_","0","9","_","1","5","_","d","a","t","a">>, clubs |-> <<>>, sort |-> FALSE],
      [handler |-> "players", data |-> <<>>, clubs |-> <<>>, sort |-> FALSE] }

noResponse == [status |-> 0, players |-> <<>>, rows |-> <<>>, totals |-> <<>>, names |-> <<>>]

idle ==
    [pc |-> "idle", handler |-> "", data |-> <<>>, clubs |-> <<>>, sort |-> FALSE,
     clubsFilter |-> << >>, opened |-> [fs |-> "none", path |-> <<>>], file |-> <<>>,
     sep |-> " ", resp |-> noResponse]

noLocals == [playersData |-> <<>>, clubTotals |-> << >>]

\* every call had one playersData and one clubTotals for all
localsShared(r) == 1

\* playersData and clubTotals are variables of the call of processData
localsOf(r) == r

\* the scanner loop on one line that gave the record p, for the accumulators a
scanStep(a, clubsFilter, p) ==
    IF noMatch(p) THEN a
    ELSE IF rejected("web", clubsFilter, <<>>, <<>>, FALSE, p) THEN a
    ELSE [playersData |-> Append(a.playersData, p),
          clubTotals |-> addTotal(a.clubTotals, p.Club, p.Compensation)]

\* sort.Strings of the names of a set
RECURSIVE sortStrings(_)
sortStrings(names) ==
    IF names = {} THEN <<>>
    ELSE LET m == CHOOSE x \in names : \A y \in names \ {x} : stringLess(x, y)
         IN  <<m>> \o sortStrings(names \ {m})

\* playersHandler: the names of the records, each once, sorted
namesOf(ps) == sortStrings({ps[i].Name : i \in 1..Len(ps)})

InitHttp ==
    /\ variant = "web"
    /\ pc = "serve"
    /\ start
    /\ amount = 0
    /\ formatted = <<>>
    /\ requests = [r \in 1..MaxRequests |-> idle]
    /\ locals = [r \in 1..MaxRequests |-> noLocals]
    /\ gaPlayers = <<>>
    /\ dollars = <<>>
    /\ median = [ok |-> TRUE, val |-> 0]
    /\ list = <<>>
    /\ joined = <<>>

httpUnchanged ==
    UNCHANGED <<variant, pc, flagVars, fileVars, sep, lineVars, dataVars, reportVars, commafVars,
                medianVars, stringVars>>

\* the handler takes the form values of the request q; playersHandler
\* answers 400 without a data parameter; otherwise processData begins with
\* its accumulators and its filters
Receive(r, q) ==
    /\ requests[r].pc = "idle"
    /\ IF q.handler = "players" /\ q.data = <<>>
       THEN /\ requests' = [requests EXCEPT ![r] =
                               [@ EXCEPT !.pc = "done", !.handler = q.handler, !.resp.status = 400]]
            /\ UNCHANGED locals
       ELSE /\ requests' = [requests EXCEPT ![r] =
                               [@ EXCEPT !.pc = "open", !.handler = q.handler, !.data = q.data,
                                         !.clubs = q.clubs, !.sort = q.sort,
                                         !.clubsFilter = clubsFilterWeb(q.clubs)]]
            /\ locals' = [locals EXCEPT ![localsOf(r)] = noLocals]
    /\ httpUnchanged

\* processData opens the data file; an error is answered with 500
OpenData(r) ==
    /\ requests[r].pc = "open"
    /\ LET f == openData(requests[r].data)
       IN  requests' = [requests EXCEPT ![r] =
                           IF f.ok
                           THEN [@ EXCEPT !.pc = "sep", !.opened = [fs |-> f.fs, path |-> f.path],
                                          !.file = f.lines]
                           ELSE [@ EXCEPT !.pc = "done", !.resp.status = 500]]
    /\ UNCHANGED locals
    /\ httpUnchanged

\* the separator from the first byte; a file without a byte is answered with
\* 500
DetectSeparatorHttp(r) ==
    /\ requests[r].pc = "sep"
    /\ LET file == requests[r].file
       IN  requests' = [requests EXCEPT ![r] =
                           IF file = <<>> \/ file = << <<>> >>
                           THEN [@ EXCEPT !.pc = "done", !.resp.status = 500]
                           ELSE IF file[1] # <<>> /\ file[1][1] = "\t"
                           THEN [@ EXCEPT !.pc = "scan", !.sep = "\t",
                                          !.file = <<Tail(file[1])>> \o Tail(file)]
                           ELSE [@ EXCEPT !.pc = "scan", !.sep = " "]]
    /\ UNCHANGED locals
    /\ httpUnchanged

\* one turn of the scanner loop of the request r
ScanHttp(r) ==
    /\ requests[r].pc = "scan"
    /\ requests[r].file # <<>>
    /\ \E p \in classifyLine("web", Head(requests[r].file), requests[r].sep) :
          locals' = [locals EXCEPT ![localsOf(r)] = scanStep(@, requests[r].clubsFilter, p)]
    /\ requests' = [requests EXCEPT ![r].file = Tail(@)]
    /\ httpUnchanged

\* the scanner stops: a read error of a file of the host is answered with
\* 500; otherwise the records are sorted and the handler writes its response
Respond(r) ==
    /\ requests[r].pc = "scan"
    /\ requests[r].file = <<>>
    /\ \E err \in BOOLEAN :
          /\ err => requests[r].opened.fs = "host"
          /\ IF err
             THEN requests' = [requests EXCEPT ![r] = [@ EXCEPT !.pc = "done", !.resp.status = 500]]
             ELSE LET mine   == locals[localsOf(r)]
                      sorted == sortPlayers(mine.playersData, requests[r].sort)
                  IN  IF requests[r].handler = "players"
                      THEN requests' = [requests EXCEPT ![r] =
                                           [@ EXCEPT !.pc = "done", !.resp.status = 200,
                                                     !.resp.names = namesOf(sorted)]]
                      ELSE \E p \in ClubTotalsSort(mine.clubTotals) :
                              requests' = [requests EXCEPT ![r] =
                                              [@ EXCEPT !.pc = "done", !.resp.status = 200,
                                                        !.resp.players = sorted,
                                                        !.resp.rows = templateRows(sorted, requests[r].sort, 1, <<>>),
                                                        !.resp.totals = totalsRows("web", p)]]
    /\ UNCHANGED locals
    /\ httpUnchanged

NextHttp ==
    \E r \in 1..MaxRequests :
        \/ \E q \in HttpRequests : Receive(r, q)
        \/ OpenData(r)
        \/ DetectSeparatorHttp(r)
        \/ ScanHttp(r)
        \/ Respond(r)

SpecHttp == InitHttp /\ [][NextHttp]_vars

\* ------------------------------------------------------------------------
\* C21: requests are independent
\* ------------------------------------------------------------------------

\* processData run alone over the lines of a file: every pair of playersData
\* and clubTotals it can end with
RECURSIVE scanAlone(_, _, _, _)
scanAlone(lines, s, clubsFilter, acc) ==
    IF lines = <<>> THEN acc
    ELSE scanAlone(Tail(lines), s, clubsFilter,
                   {scanStep(a, clubsFilter, p) : a \in acc,
                                                  p \in classifyLine("web", Head(lines), s)})

processAlone(q) ==
    LET f     == openData(q.data)
        tab   == f.lines[1] # <<>> /\ f.lines[1][1] = "\t"
        lines == IF tab THEN <<Tail(f.lines[1])>> \o Tail(f.lines) ELSE f.lines
    IN  scanAlone(lines, IF tab THEN "\t" ELSE " ", clubsFilterWeb(q.clubs), {noLocals})

\* the responses with status 200 the request q can get when it runs alone
responsesAlone(q) ==
    UNION {LET sorted == sortPlayers(a.playersData, q.sort)
           IN  IF q.handler = "players"
               THEN {[noResponse EXCEPT !.status = 200, !.names = namesOf(sorted)]}
               ELSE {[status |-> 200, players |-> sorted,
                      rows |-> templateRows(sorted, q.sort, 1, <<>>),
                      totals |-> totalsRows("web", p), names |-> <<>>] :
                         p \in ClubTotalsSort(a.clubTotals)} :
           a \in processAlone(q)}

paramsOf(req) == [handler |-> req.handler, data |-> req.data, clubs |-> req.clubs, sort |-> req.sort]

\* C21: whatever the interleaving of the requests, a request that is
\* answered with its records and totals gets a response it can get when it
\* runs alone: nothing of another request is in it.
C21_RequestsIndependent ==
    \A r \in DOMAIN requests :
        requests[r].pc = "done" /\ requests[r].resp.status = 200 =>
            requests[r].resp \in responsesAlone(paramsOf(requests[r]))

\* a request is answered with a record while another request, received
\* before the answer, is in its scanner loop and holds a record of its own
C21_Witness ==
    /\ requests # <<>>
    /\ requests[1].pc = "done"
    /\ requests[1].resp.status = 200
    /\ Len(requests[1].resp.players) = 2
    /\ requests[2].pc = "scan"
    /\ requests[2].clubs # <<>>
    /\ Len(locals[2].playersData) = 1

\* ------------------------------------------------------------------------
\* C22: the classifier on its own output
\* ------------------------------------------------------------------------

\* the line made of the group, the name and the category of a record
rendered(p, s) == Join(<<p.Club, p.Name, p.Pos>>, <<s>>)

\* C22: the group, the name and the category of the record of a line, joined
\* by the separator and classified again, give a record with the same group,
\* the same name and the same category.
C22_Idempotent ==
    scanned =>
        \A q \in classifyLine(variant, rendered(player, sep), sep) :
            q.Club = player.Club /\ q.Name = player.Name /\ q.Pos = player.Pos

\* ------------------------------------------------------------------------
\* C23: the numbering of the web table and of the command-line report
\* ------------------------------------------------------------------------

\* the counter and the separator of every row
numbering(rs) == [i \in 1..Len(rs) |-> [n |-> rs[i].n, blank |-> rs[i].blank]]

\* C23: the table of the web program is numbered as the report of the
\* command-line program is for the same records and the same sort flag: with
\* the sort by club on, every row whose club differs from the club of the row
\* before it, the first named club after records without a club included,
\* comes after a separator row and has the counter 1.
C23_WebNumberedAsCli ==
    variant = "web" /\ pc = "done" /\ playersData # <<>> =>
        numbering(rows) = numbering(reportRows("cli", playersData, sortByClub))

\* ------------------------------------------------------------------------
\* C24: several clubs or several positions on a line
\* ------------------------------------------------------------------------

clubTokens == tokensOfRule(variant, lineTokens, "club")

posTokens == tokensOfRule(variant, lineTokens, "pos")

\* the category a position token is stored as
storedPos(v, t) == IF v = "cli" THEN t ELSE ToUpper(t)

\* C24: on a line with more than one club token the group is the club of the
\* last of them, on a line with more than one position token the category is
\* the last of them, and none of these tokens is part of the name.
C24_LastMatchWins ==
    scanned =>
        /\ Len(clubTokens) > 1 => player.Club \in canonical(variant, lastOf(clubTokens))
        /\ Len(posTokens) > 1 => player.Pos = storedPos(variant, lastOf(posTokens))
        /\ Len(clubTokens) > 1 \/ Len(posTokens) > 1 =>
               player.Name = Join(tokensOfRule(variant, lineTokens, "name"), <<" ">>)

\* a line with two clubs of different abbreviations and a name
C24_Witness ==
    /\ scanned
    /\ Len(clubTokens) = 2
    /\ canonical(variant, clubTokens[1]) # canonical(variant, clubTokens[2])
    /\ player.Club \in canonical(variant, clubTokens[2])
    /\ player.Name = <<"V","e","l","a">>

\* ------------------------------------------------------------------------
\* C25: no record is accepted
\* ------------------------------------------------------------------------

\* C25: when the scanner stops without a read error and no record was
\* accepted, the report step does not read the first record: the run ends
\* normally, without a record row and without a totals row.
C25_EmptyResultEndsNormally ==
    [][pc = "scan" /\ pc' # "scan" /\ nLines' = nLines /\ playersData = <<>> /\ ~scanErr' =>
          /\ pc' \in {"done", "nomatch"}
          /\ rows' = <<>>
          /\ totals' = <<>>]_vars

\* ------------------------------------------------------------------------
\* C26: a data file without a byte
\* ------------------------------------------------------------------------

\* C26: cli and web, on a data file that opens and holds no byte, fail at
\* the read of the first byte: the run ends there in its error outcome, no
\* line is scanned, nothing is reported, and "No matches found" is not
\* printed since nothing follows the error outcome.
C26_EmptyFileIsError ==
    [][/\ pc = "sep" /\ reader = <<>> =>
             /\ pc' = failure(variant)
             /\ nLines' = 0
             /\ rows' = <<>>
             /\ totals' = <<>>
       /\ pc \notin {"fatal", "error"}]_vars

\* the file without a byte is open and its first byte is about to be read
C26_Witness ==
    /\ pc = "sep"
    /\ reader = <<>>
    /\ variant \in {"cli", "web"}
    /\ args.clubs.given

\* ------------------------------------------------------------------------
\* C27: web: a parameter without a match
\* ------------------------------------------------------------------------

\* the clubs field is not empty and none of its entries is found in the name
\* or the abbreviation of a club
unmatchedClubs ==
    /\ args.clubs.val # <<>>
    /\ LET entries == Split(args.clubs.val, ",")
       IN  \A i \in 1..Len(entries), full \in DOMAIN allClubsWeb :
               /\ ~Contains(ToLower(full), ToLower(clubEntryWeb(entries[i])))
               /\ ~Contains(ToLower(allClubsWeb[full]), ToLower(clubEntryWeb(entries[i])))

\* the Positions field is not empty and none of its entries is a position
unmatchedPos ==
    /\ args.pos.val # <<>>
    /\ LET entries == Split(args.pos.val, ",")
       IN  \A i \in 1..Len(entries) : TrimSpace(ToUpper(entries[i])) \notin SeqRange(allPosWeb)

\* C27: in the web program a clubs field, or a Positions field, none of whose
\* entries matches leaves the filter list empty and is no error; the records
\* kept are then accepted exactly when they pass the other dimensions, as if
\* the field had not been sent.
C27_UnmatchedParameterNoConstraint ==
    [][variant = "web" =>
          /\ pc = "args" =>
                /\ pc' = "open"
                /\ unmatchedClubs' => DOMAIN clubs' = {}
                /\ unmatchedPos' => pos' = <<>>
          /\ nLines' = nLines + 1 /\ ~noMatch(player') =>
                /\ unmatchedClubs => ((verdict' = "accepted") = (posDim' /\ nameDim' /\ dpDim'))
                /\ unmatchedPos => ((verdict' = "accepted") = (clubDim' /\ nameDim' /\ dpDim'))]_vars

\* a record of LAFC is accepted though the clubs field asked for XYZ, and
\* the next is rejected by the Positions field
C27_Witness ==
    /\ variant = "web"
    /\ unmatchedClubs
    /\ ~unmatchedPos
    /\ pos # <<>>
    /\ verdict = "rejected"
    /\ Len(playersData) = 1
    /\ playersData[1].Club = <<"L","A","F","C">>

\* ------------------------------------------------------------------------
\* the goals-and-assists report ("cliGA"): the median of the dollars per goal
\* or assist
\* ------------------------------------------------------------------------

MaxPlayers == 3

\* a player as the loop over the CSV records makes it: the compensation in
\* cents, GAPerDollar the compensation divided by goals plus assists
gaPlayer(position, goals, assists, comp) ==
    [Pos |-> position, Goals |-> goals, Assists |-> assists, Compensation |-> comp,
     GAPerDollar |-> comp \div (goals + assists)]

\* players whose GAPerDollar is a whole and even number of cents; one has no
\* compensation and two play in positions that are left out
GaPlayerPool ==
    { gaPlayer(<<"F">>, 10, 5, 150000000),
      gaPlayer(<<"M">>, 2, 3, 20000000),
      gaPlayer(<<"L","W">>, 1, 0, 6000000),
      gaPlayer(<<"F">>, 3, 1, 0),
      gaPlayer(<<"G","K">>, 0, 1, 9000000),
      gaPlayer(<<"C","B">>, 1, 1, 30000000) }

\* the positions the median leaves out
leftOut == {<<"C","D","M">>, <<"C","B">>, <<"G","K">>}

\* the values appended to dollars
selectDollars(players) ==
    LET chosen(p) == p.GAPerDollar > 0 /\ p.Pos \notin leftOut
        ps        == SelectSeq(players, chosen)
    IN  [i \in 1..Len(ps) |-> ps[i].GAPerDollar]

\* sort.Float64s
sortFloat64s(q) == SortSeq(q, LAMBDA a, b : a < b)

\* the median as main computes it; d[k + 1] here is dollars[k] in the code, and
\* ok = FALSE is the index out of range
medianOf(d) ==
    LET half == Len(d) \div 2
    IN  IF Len(d) % 2 # 0
        THEN IF half - 1 < 0 THEN [ok |-> FALSE, val |-> 0]
             ELSE [ok |-> TRUE, val |-> (d[half] + d[half + 1]) \div 2]
        ELSE IF half # 0 THEN [ok |-> TRUE, val |-> d[half + 1]]
        ELSE [ok |-> TRUE, val |-> 0]

InitMedian ==
    /\ variant = "cliGA"
    /\ pc = "median"
    /\ start
    /\ amount = 0
    /\ formatted = <<>>
    /\ requests = <<>>
    /\ locals = <<>>
    /\ gaPlayers \in BoundedSeq(GaPlayerPool, MaxPlayers)
    /\ dollars = <<>>
    /\ median = [ok |-> TRUE, val |-> 0]
    /\ list = <<>>
    /\ joined = <<>>

\* main after the loop over the CSV records: the values are selected and
\* sorted, the median is computed and printed with commaf
ComputeMedian ==
    /\ pc = "median"
    /\ dollars' = sortFloat64s(selectDollars(gaPlayers))
    /\ median' = medianOf(dollars')
    /\ IF median'.ok
       THEN /\ pc' = "done"
            /\ formatted' = commafTruncate(median'.val)
       ELSE /\ pc' = "panic"
            /\ UNCHANGED formatted
    /\ UNCHANGED <<variant, flagVars, fileVars, sep, lineVars, dataVars, reportVars, amount,
                   httpVars, gaPlayers, stringVars>>

NextMedian == ComputeMedian

SpecMedian == InitMedian /\ [][NextMedian]_vars

\* ------------------------------------------------------------------------
\* C28: the median
\* ------------------------------------------------------------------------

\* the median of a sorted list
properMedian(d) ==
    LET n == Len(d)
    IN  IF n = 0 THEN 0
        ELSE IF n % 2 = 1 THEN d[(n + 1) \div 2]
        ELSE (d[n \div 2] + d[n \div 2 + 1]) \div 2

\* C28: the median printed by the goals-and-assists report is the median of
\* the sorted selected values: the middle one of an odd number, the mean of
\* the two middle ones of an even number, 0 of none; no index is out of
\* range, whatever the length of the list, 1 included.
C28_Median ==
    variant = "cliGA" /\ pc # "median" =>
        /\ median.ok
        /\ median.val = properMedian(dollars)

\* ------------------------------------------------------------------------
\* C29: the files the handlers open
\* ------------------------------------------------------------------------

\* C29: whatever the data parameter of a request is, the file opened and
\* parsed for it is one of the embedded data files; no other file of the
\* host is opened.
C29_OnlyEmbeddedData ==
    \A r \in DOMAIN requests :
        /\ requests[r].opened.fs # "host"
        /\ requests[r].opened.fs = "embedded" => requests[r].opened.path \in DOMAIN embeddedFiles

\* ------------------------------------------------------------------------
\* the String methods of the flag values
\* ------------------------------------------------------------------------

MaxNames == 3

\* make([]string, len, len) followed by an append for every name, then
\* strings.Join: the slice begins with len empty strings
joinNames(names) ==
    Join([i \in 1..Len(names) |-> <<>>] \o names, <<",", " ">>)

\* cli2018a: Clubs.String
ClubsString2018a(c) == joinNames([i \in 1..Len(c) |-> c[i].Name])

\* cli, cli2018: Players.String
PlayersString(p) == joinNames([i \in 1..Len(p) |-> p[i].Name])

\* the programs whose String method is called
StringVariants == {"cli2018a", "cli", "cli2018"}

\* the elements the lists are made of: clubs for Clubs.String, players as
\* Players.Set makes them for Players.String
StringPool(v) ==
    IF v = "cli2018a"
    THEN {allClubs2018a[i] : i \in 1..3}
    ELSE {[emptyPlayer EXCEPT !.Name = n] :
             n \in {<<"C","a","r","l","o","s"," ","V","e","l","a">>, <<"V","i","l","l","a">>, <<"J","o","s","e","f"," ","M","a","r","t","i","n","e","z">>}}

InitString ==
    /\ variant \in StringVariants
    /\ pc = "string"
    /\ start
    /\ amount = 0
    /\ formatted = <<>>
    /\ requests = <<>>
    /\ locals = <<>>
    /\ gaPlayers = <<>>
    /\ dollars = <<>>
    /\ median = [ok |-> TRUE, val |-> 0]
    /\ list \in BoundedSeq(StringPool(variant), MaxNames)
    /\ joined = <<>>

\* the String method is called on the list
CallString ==
    /\ pc = "string"
    /\ joined' = (IF variant = "cli2018a" THEN ClubsString2018a(list) ELSE PlayersString(list))
    /\ pc' = "done"
    /\ UNCHANGED <<variant, flagVars, fileVars, sep, lineVars, dataVars, reportVars, commafVars,
                   httpVars, medianVars, list>>

NextString == CallString

SpecString == InitString /\ [][NextString]_vars

\* ------------------------------------------------------------------------
\* C30: the text of a list
\* ------------------------------------------------------------------------

\* C30: Clubs.String and Players.String return the names of the list in
\* their order joined by ", ": one entry for every element, no empty entry
\* and no separator ahead of the first name, whatever the length of the list.
C30_StringJoinsNames ==
    pc = "done" => joined = Join([i \in 1..Len(list) |-> list[i].Name], <<",", " ">>)

====
